---------------------------- MODULE Spec2Model ----------------------------
(***************************************************************************)
(* Model of the PMX import path of Avatar Toolkit:                         *)
(*   core/importers/mmd_parser.py   load_pmx_file and its section readers  *)
(*   core/importers/import_pmx.py   PMXImporter.execute                     *)
(*   core/common.py                 ProgressTracker                         *)
(* A file is a sequence of bytes.  The decoder is translated read by read  *)
(* (struct.unpack over f.read), the importer statement by statement.       *)
(***************************************************************************)
EXTENDS Integers, Sequences, FiniteSets, TLC

\* ------------------------------------------------------------------------
\* Bounds of the checked input family (not program constants).
\* ------------------------------------------------------------------------
\* Largest number of triangles / of materials in the face-count family.
MaxFaces == 2
\* Weight-type tags 0..MaxTag (and the byte 255) are tried at every vertex.
MaxTag == 5

\* ------------------------------------------------------------------------
\* Values
\* ------------------------------------------------------------------------
None == [none |-> TRUE]

NoErr == [type |-> "none", what |-> "", arg |-> 0]

Err(type, what, arg) == [type |-> type, what |-> what, arg |-> arg]

MinOf(a, b) == IF a <= b THEN a ELSE b

RECURSIVE Pow2(_)
Pow2(n) == IF n = 0 THEN 1 ELSE 2 * Pow2(n - 1)

RECURSIVE Flatten(_)
Flatten(ss) == IF ss = <<>> THEN <<>> ELSE Head(ss) \o Flatten(Tail(ss))

\* ------------------------------------------------------------------------
\* struct.unpack: one format character applied to its bytes (little endian,
\* two's complement; Python's native formats on the supported platforms).
\* ------------------------------------------------------------------------
\* 'b': signed char
SignedByte(b) == IF b >= 128 THEN b - 256 ELSE b

\* 'H': unsigned short
U16(bs) == bs[1] + 256 * bs[2]

\* 'i': signed 32-bit int
I32(bs) == bs[1] + 256 * bs[2] + 65536 * bs[3] + 16777216 * SignedByte(bs[4])

\* 'I': unsigned 32-bit int (values below 2^31; the checked files hold no larger one)
U32(bs) == bs[1] + 256 * bs[2] + 65536 * bs[3] + 16777216 * bs[4]

\* 'f': IEEE-754 binary32.  A float is represented exactly: <<"q", n>> is the
\* value n/256 when the bit pattern denotes such a value, else the float is
\* kept as its bit pattern <<"f32", bits>>.
F32(bs) ==
    LET bits == I32(bs)
        mag  == bs[1] + 256 * bs[2] + 65536 * bs[3] + 16777216 * (bs[4] % 128)
        neg  == bs[4] >= 128
        e    == mag \div 8388608
        m    == mag % 8388608
        sig  == 8388608 + m
    IN  IF mag = 0 THEN <<"q", 0>>
        ELSE IF e >= 142 /\ e <= 148
             THEN <<"q", (IF neg THEN -1 ELSE 1) * sig * Pow2(e - 142)>>
        ELSE IF e >= 119 /\ e < 142 /\ sig % Pow2(142 - e) = 0
             THEN <<"q", (IF neg THEN -1 ELSE 1) * (sig \div Pow2(142 - e))>>
        ELSE <<"f32", bits>>

\* The Python float literal 1.0
One == <<"q", 256>>

\* 1.0 - w in double precision: exact for every float w = n/256
OneMinus(w) == IF w[1] = "q" THEN <<"q", 256 - w[2]>> ELSE <<"1.0-", w[2]>>

\* w > 0
\* A bit pattern above that of +inf, or a negative one above that of -inf,
\* is a NaN, which is not above 0; 1.0 - x is above 0 when x is below 1.0
\* (bit pattern below that of 1.0f) or negative.
Positive(w) ==
    CASE w[1] = "q" -> w[2] > 0
      [] w[1] = "f32" -> w[2] > 0 /\ w[2] <= 2139095040
      [] OTHER -> IF w[2] >= 0 THEN w[2] < 1065353216 ELSE w[2] <= -8388608

UnpackOne(c, bs) ==
    CASE c = "b" -> SignedByte(bs[1])
      [] c = "B" -> bs[1]
      [] c = "H" -> U16(bs)
      [] c = "i" -> I32(bs)
      [] c = "I" -> U32(bs)
      [] c = "f" -> F32(bs)

\* struct.calcsize of one format character
SizeOf(c) == CASE c \in {"b", "B"} -> 1 [] c = "H" -> 2 [] OTHER -> 4

RECURSIVE CalcSize(_)
CalcSize(fmt) == IF fmt = <<>> THEN 0 ELSE SizeOf(Head(fmt)) + CalcSize(Tail(fmt))

RECURSIVE UnpackAll(_, _)
UnpackAll(fmt, bs) ==
    IF fmt = <<>> THEN <<>>
    ELSE <<UnpackOne(Head(fmt), SubSeq(bs, 1, SizeOf(Head(fmt))))>>
         \o UnpackAll(Tail(fmt), SubSeq(bs, SizeOf(Head(fmt)) + 1, Len(bs)))

\* ------------------------------------------------------------------------
\* bytes.decode(encoding), errors='strict'
\* ------------------------------------------------------------------------
IsCont(b) == b >= 128 /\ b <= 191

\* The result is a sequence of code points, or <<-1>> for UnicodeDecodeError.
\* A run of ASCII bytes is taken whole; the recursion is over the other
\* characters.
RECURSIVE DecodeUTF8(_)
DecodeUTF8(bs) ==
    IF \A i \in 1..Len(bs) : bs[i] < 128 THEN bs
    ELSE LET n == Len(bs)
             k == CHOOSE i \in 1..n : bs[i] >= 128 /\ \A j \in 1..(i - 1) : bs[j] < 128
             b == bs[k]
             need == CASE b >= 194 /\ b <= 223 -> 2
                       [] b >= 224 /\ b <= 239 -> 3
                       [] b >= 240 /\ b <= 244 -> 4
                       [] OTHER -> 0
             lo2 == CASE b = 224 -> 160 [] b = 240 -> 144 [] OTHER -> 128
             hi2 == CASE b = 237 -> 159 [] b = 244 -> 143 [] OTHER -> 191
             good == /\ need > 0
                     /\ n >= k + need - 1
                     /\ bs[k + 1] >= lo2 /\ bs[k + 1] <= hi2
                     /\ need >= 3 => IsCont(bs[k + 2])
                     /\ need >= 4 => IsCont(bs[k + 3])
             cp == CASE need = 2 -> (b - 192) * 64 + (bs[k + 1] - 128)
                     [] need = 3 -> (b - 224) * 4096 + (bs[k + 1] - 128) * 64
                                    + (bs[k + 2] - 128)
                     [] OTHER -> (b - 240) * 262144 + (bs[k + 1] - 128) * 4096
                                 + (bs[k + 2] - 128) * 64 + (bs[k + 3] - 128)
         IN  IF ~good THEN <<-1>>
             ELSE LET rest == DecodeUTF8(SubSeq(bs, k + need, n))
                  IN  IF rest = <<-1>> THEN <<-1>>
                      ELSE SubSeq(bs, 1, k - 1) \o <<cp>> \o rest

IsSurrogate(u) == u >= 55296 /\ u <= 57343

\* A run of 16-bit units outside the surrogate range is taken whole; the
\* recursion is over the surrogate pairs.
RECURSIVE DecodeUnits(_)
DecodeUnits(us) ==
    IF \A i \in 1..Len(us) : ~IsSurrogate(us[i]) THEN us
    ELSE LET n == Len(us)
             k == CHOOSE i \in 1..n : IsSurrogate(us[i])
                                      /\ \A j \in 1..(i - 1) : ~IsSurrogate(us[j])
             pair == /\ us[k] <= 56319
                     /\ k < n
                     /\ us[k + 1] >= 56320 /\ us[k + 1] <= 57343
         IN  IF ~pair THEN <<-1>>
             ELSE LET rest == DecodeUnits(SubSeq(us, k + 2, n))
                  IN  IF rest = <<-1>> THEN <<-1>>
                      ELSE SubSeq(us, 1, k - 1)
                           \o <<65536 + (us[k] - 55296) * 1024 + (us[k + 1] - 56320)>>
                           \o rest

DecodeUTF16LE(bs) ==
    IF Len(bs) % 2 = 1 THEN <<-1>>
    ELSE DecodeUnits([i \in 1..(Len(bs) \div 2) |-> bs[2 * i - 1] + 256 * bs[2 * i]])

Decode(bs, encoding) ==
    IF encoding = "utf-16-le" THEN DecodeUTF16LE(bs) ELSE DecodeUTF8(bs)

\* ------------------------------------------------------------------------
\* The binary reader: f.read and the reads built on it.  A read result is
\*   [ok, pos, val, err, short]: pos the cursor after the read, val the value,
\*   err the exception raised, short = the read returned fewer bytes than it
\*   asked for and raised nothing.
\* ------------------------------------------------------------------------
\* the exception f.read(n) raises for n below -1; the cursor stays
ReadLengthError == Err("ValueError", "read length must be non-negative or -1", 0)

\* f.read(n): at most n bytes from the cursor, all that remain when n = -1;
\* for n below -1 the exception it raises in place of bytes.
Read(f, pos, n) ==
    IF n < -1 THEN ReadLengthError
    ELSE IF n = -1 \/ n >= Len(f) - pos THEN SubSeq(f, pos + 1, Len(f))
    ELSE SubSeq(f, pos + 1, pos + n)

Ok(pos, val, short) == [ok |-> TRUE, pos |-> pos, val |-> val, err |-> NoErr, short |-> short]

Raise(pos, err, short) == [ok |-> FALSE, pos |-> pos, val |-> None, err |-> err, short |-> short]

\* "r; K(r)": the statements K that follow a read r run unless r raised.
Bind(r, K(_)) == IF r.ok THEN K(r) ELSE r

\* the result of a read r followed by the reads rest: the values of both
Merge(r, rest) ==
    [rest EXCEPT !.val = IF rest.ok THEN <<r.val>> \o rest.val ELSE None,
                 !.short = r.short \/ rest.short]

\* struct.unpack(fmt, bs) for the bytes bs that f.read returned at pos
UnpackBytes(pos, fmt, bs) ==
    IF Len(bs) # CalcSize(fmt)
    THEN Raise(pos + Len(bs), Err("struct.error", "unpack requires a buffer", CalcSize(fmt)), FALSE)
    ELSE Ok(pos + Len(bs), UnpackAll(fmt, bs), FALSE)

\* struct.unpack(fmt, f.read(calcsize(fmt)))
Unpack(f, pos, fmt) == UnpackBytes(pos, fmt, Read(f, pos, CalcSize(fmt)))

\* bs[0] for the bytes bs that f.read(1) returned at pos
FirstByte(pos, bs) ==
    IF bs = <<>> THEN Raise(pos, Err("IndexError", "index out of range", 0), FALSE)
    ELSE Ok(pos + 1, bs[1], FALSE)

\* f.read(1)[0]
ReadByte(f, pos) == FirstByte(pos, Read(f, pos, 1))

Skipped(pos, n, bs) == Ok(pos + Len(bs), None, Len(bs) < n)

\* f.read(n) whose result is dropped
Skip(f, pos, n) == Skipped(pos, n, Read(f, pos, n))

\* the code points text (or <<-1>>) decoded from the bytes bs read at pos
Decoded(pos, length, bs, encoding, text) ==
    IF text = <<-1>>
    THEN Raise(pos + Len(bs), Err("UnicodeDecodeError", encoding, 0),
               length > 0 /\ Len(bs) < length)
    ELSE Ok(pos + Len(bs), text, length > 0 /\ Len(bs) < length)

\* f.read(length).decode(encoding) at pos
ReadDecode(pos, length, bs, encoding) ==
    Decoded(pos, length, bs, encoding, Decode(bs, encoding))

\* the body of _read_text after its length l was read
TextBody(f, l, encoding) ==
    IF l.val[1] = 0 THEN Ok(l.pos, <<>>, FALSE)
    ELSE IF l.val[1] < -1 THEN Raise(l.pos, Read(f, l.pos, l.val[1]), FALSE)
    ELSE ReadDecode(l.pos, l.val[1], Read(f, l.pos, l.val[1]), encoding)

_read_text(f, pos, encoding) ==
    Bind(Unpack(f, pos, <<"i">>), LAMBDA l : TextBody(f, l, encoding))

\* One read of a record layout.
S(fmt) == [k |-> "struct", fmt |-> fmt]
B1 == [k |-> "byte"]
X(n) == [k |-> "skip", n |-> n]
T == [k |-> "text"]

ReadItem(f, pos, encoding, item) ==
    CASE item.k = "struct" -> Unpack(f, pos, item.fmt)
      [] item.k = "byte" -> ReadByte(f, pos)
      [] item.k = "skip" -> Skip(f, pos, item.n)
      [] item.k = "text" -> _read_text(f, pos, encoding)

\* The reads of a layout in source order; the first exception ends them.
\* val is the sequence of the values read.
RECURSIVE ReadItems(_, _, _, _)
ReadItems(f, pos, encoding, items) ==
    IF items = <<>> THEN Ok(pos, <<>>, FALSE)
    ELSE Bind(ReadItem(f, pos, encoding, Head(items)),
              LAMBDA r : Merge(r, ReadItems(f, r.pos, encoding, Tail(items))))

\* "for _ in range(count)": count records read by ReadOne(f, pos), appended to
\* a list; a count <= 0 reads nothing.
RECURSIVE ReadMany(_, _, _, _)
ReadMany(ReadOne(_, _), f, pos, count) ==
    IF count <= 0 THEN Ok(pos, <<>>, FALSE)
    ELSE Bind(ReadOne(f, pos),
              LAMBDA r : Merge(r, ReadMany(ReadOne, f, r.pos, count - 1)))

\* ------------------------------------------------------------------------
\* mmd_parser.py: the section readers
\* ------------------------------------------------------------------------
fff == <<"f", "f", "f">>

\* PMXVertex(position, normal, uv, bone_indices, bone_weights)
PMXVertex(pos, normal, uv, indices, weights) ==
    [position |-> pos, normal |-> normal, uv |-> uv,
     bone_indices |-> indices, bone_weights |-> weights]

\* The reads that follow a weight-type tag, or <<>> for a tag the dispatch
\* does not know.
WeightLayout(weight_type) ==
    CASE weight_type = 0 -> <<S(<<"i">>)>>
      [] weight_type = 1 -> <<S(<<"i">>), S(<<"i">>), S(<<"f">>)>>
      [] weight_type = 2 -> <<S(<<"i">>), S(<<"i">>), S(<<"i">>), S(<<"i">>),
                              S(<<"f">>), S(<<"f">>), S(<<"f">>), S(<<"f">>)>>
      [] weight_type = 3 -> <<S(<<"i">>), S(<<"i">>), S(<<"f">>), S(fff), S(fff), S(fff)>>
      [] weight_type = 4 -> <<S(<<"i">>), S(<<"i">>), S(<<"i">>), S(<<"i">>),
                              S(<<"f">>), S(<<"f">>), S(<<"f">>), S(<<"f">>)>>
      [] OTHER -> <<>>

\* the tags the if/elif chain of _read_vertices has a branch for
KnownWeightType(weight_type) == weight_type \in 0..4

\* indices and weights of a vertex from the values v its layout read
WeightIndices(weight_type, v) ==
    CASE weight_type = 0 -> <<v[1][1]>>
      [] weight_type \in {1, 3} -> <<v[1][1], v[2][1]>>
      [] OTHER -> <<v[1][1], v[2][1], v[3][1], v[4][1]>>

WeightValues(weight_type, v) ==
    CASE weight_type = 0 -> <<One>>
      [] weight_type \in {1, 3} -> <<v[3][1], OneMinus(v[3][1])>>
      [] OTHER -> <<v[5][1], v[6][1], v[7][1], v[8][1]>>

\* vertices.append(PMXVertex(...)) from the values h read before the tag
\* and the values w read after it
MakeVertex(h, weight_type, w) ==
    Ok(w.pos,
       PMXVertex(h[1], h[2], h[3], WeightIndices(weight_type, w.val),
                 WeightValues(weight_type, w.val)),
       FALSE)

\* the if/elif chain on weight_type, after the reads h of position, normal,
\* uv and tag
ReadWeights(f, h, weight_type) ==
    IF ~KnownWeightType(weight_type)
    THEN Raise(h.pos, Err("ValueError", "Invalid weight type", weight_type), FALSE)
    ELSE Bind(ReadItems(f, h.pos, "", WeightLayout(weight_type)),
              LAMBDA w : MakeVertex(h.val, weight_type, w))

\* One iteration of the loop of _read_vertices.
ReadVertex(f, pos) ==
    Bind(ReadItems(f, pos, "", <<S(fff), S(fff), S(<<"f", "f">>), S(<<"b">>)>>),
         LAMBDA h : ReadWeights(f, h, h.val[4][1]))

_read_vertices(f, pos, count) == ReadMany(ReadVertex, f, pos, count)

\* the struct format of a face for an index size, <<>> when no branch of
\* _read_faces matches it
FaceFormat(index_size) ==
    CASE index_size = 1 -> <<"B", "B", "B">>
      [] index_size = 2 -> <<"H", "H", "H">>
      [] index_size = 4 -> <<"I", "I", "I">>
      [] OTHER -> <<>>

\* The loop of _read_faces over n = count // 3 faces of size bytes each.
\* Every iteration reads the same number of bytes, so the loop is given in
\* closed form: the n faces when the file holds them all; else struct.unpack
\* raises on the first face the file does not hold whole, f.read having
\* consumed what was left.
ReadFaces(f, pos, n, fmt, size) ==
    IF n <= 0 THEN Ok(pos, <<>>, FALSE)
    ELSE IF n * size <= Len(f) - pos
         THEN Ok(pos + n * size,
                 [i \in 1..n |-> UnpackAll(fmt, SubSeq(f, pos + (i - 1) * size + 1,
                                                      pos + i * size))],
                 FALSE)
    ELSE Raise(Len(f), Err("struct.error", "unpack requires a buffer", size), FALSE)

\* range(count // 3).  No branch binds "indices" for an index_size other
\* than 1, 2, 4, and faces.append(indices) then raises in the first iteration.
_read_faces(f, pos, count, index_size) ==
    IF count \div 3 > 0 /\ FaceFormat(index_size) = <<>>
    THEN Raise(pos, Err("UnboundLocalError", "indices", index_size), FALSE)
    ELSE ReadFaces(f, pos, count \div 3, FaceFormat(index_size),
                   CalcSize(FaceFormat(index_size)))

_read_textures(f, pos, count, encoding) ==
    ReadMany(LAMBDA ff, p : _read_text(ff, p, encoding), f, pos, count)

\* PMXMaterial(...) from the values a read up to the toon flag and the
\* values b read after it
PMXMaterial(a, b) ==
    [name |-> a[1], diffuse |-> a[3], specular |-> a[4], ambient |-> a[5],
     texture_index |-> a[8][1], sphere_texture_index |-> a[9][1], sphere_mode |-> a[10][1],
     toon_texture_index |-> b[1][1], vertex_count |-> b[3][1]]

MakeMaterial(a, b) ==
    IF b.ok THEN Ok(b.pos, PMXMaterial(a.val, b.val), a.short \/ b.short)
    ELSE [b EXCEPT !.short = a.short \/ b.short]

\* the toon texture index, the comment and vertex_count
ReadMaterialTail(f, a, shared_toon_flag, encoding) ==
    MakeMaterial(a, ReadItems(f, a.pos, encoding,
                              <<S(IF shared_toon_flag # 0 THEN <<"b">> ELSE <<"i">>),
                                T, S(<<"i">>)>>))

\* One iteration of the loop of _read_materials.
ReadMaterial(f, pos, encoding) ==
    Bind(ReadItems(f, pos, encoding,
                   <<T, T, S(<<"f", "f", "f", "f">>), S(fff), S(fff), X(1), X(16),
                     S(<<"i">>), S(<<"i">>), S(<<"b">>), S(<<"b">>)>>),
         LAMBDA a : ReadMaterialTail(f, a, a.val[11][1], encoding))

_read_materials(f, pos, count, encoding) ==
    ReadMany(LAMBDA ff, p : ReadMaterial(ff, p, encoding), f, pos, count)

\* the dictionary of a bone from the values v read for it
MakeBone(r) ==
    Ok(r.pos,
       [name |-> r.val[1], name_en |-> r.val[2], position |-> r.val[3],
        parent_index |-> r.val[4][1], layer |-> r.val[5][1], flags |-> r.val[6][1]],
       r.short)

\* One iteration of the loop of _read_bones.
ReadBone(f, pos, encoding) ==
    Bind(ReadItems(f, pos, encoding, <<T, T, S(fff), S(<<"i">>), S(<<"i">>), S(<<"H">>)>>),
         MakeBone)

_read_bones(f, pos, count, encoding) ==
    ReadMany(LAMBDA ff, p : ReadBone(ff, p, encoding), f, pos, count)

\* A count-prefixed section: "count = struct.unpack('i', f.read(4))[0]" and
\* the reader called with it.
Section(Reader(_, _, _), f, pos) ==
    Bind(Unpack(f, pos, <<"i">>), LAMBDA c : Reader(f, c.pos, c.val[1]))

\* ------------------------------------------------------------------------
\* The checked inputs: files written from a description d of their content.
\* A description holds, for every section, the declared count and the
\* records that follow it, so that malformed files can be described too.
\* ------------------------------------------------------------------------
\* the four bytes of a signed 32-bit int
PutI32(n) ==
    LET m == IF n >= 0 THEN n ELSE (n + 2147483647) + 1
    IN  <<m % 256, (m \div 256) % 256, (m \div 65536) % 256,
          (m \div 16777216) + (IF n >= 0 THEN 0 ELSE 128)>>

PutIndex(n, width) ==
    CASE width = 2 -> <<n % 256, n \div 256>>
      [] width = 4 -> PutI32(n)
      [] OTHER -> <<n>>

PutText(bs) == PutI32(Len(bs)) \o bs

Zeros(n) == [i \in 1..n |-> 0]

\* floats: 0.0, 0.25, 0.5, 1.0, 2.0, 2.1, 9.0
Float0 == <<0, 0, 0, 0>>
FloatQuarter == <<0, 0, 128, 62>>
FloatHalf == <<0, 0, 0, 63>>
Float1 == <<0, 0, 128, 63>>
Float2 == <<0, 0, 0, 64>>
Float2_1 == <<102, 102, 6, 64>>
Float9 == <<0, 0, 16, 65>>

PMXMagic == <<80, 77, 88, 32>>

\* The bytes after a vertex's weight-type tag: bone indices b, weights w.
PutWeights(tag, b, w) ==
    CASE tag = 0 -> PutI32(b[1])
      [] tag = 1 -> PutI32(b[1]) \o PutI32(b[2]) \o w[1]
      [] tag = 3 -> PutI32(b[1]) \o PutI32(b[2]) \o w[1] \o Zeros(36)
      [] tag \in {2, 4} -> PutI32(b[1]) \o PutI32(b[2]) \o PutI32(b[3]) \o PutI32(b[4])
                           \o w[1] \o w[2] \o w[3] \o w[4]
      [] OTHER -> PutI32(b[1])

PutVertex(v) == Zeros(32) \o <<v.tag>> \o PutWeights(v.tag, v.bones, v.weights)

PutFace(t, width) ==
    PutIndex(t[1], width) \o PutIndex(t[2], width) \o PutIndex(t[3], width)

PutMaterial(m) ==
    PutText(m.name) \o PutText(<<>>) \o Zeros(16) \o Zeros(12) \o Zeros(12)
    \o <<0>> \o Zeros(16) \o PutI32(m.tex) \o PutI32(-1) \o <<0>>
    \o (IF m.shared_toon THEN <<1, 0>> ELSE <<0>> \o PutI32(-1))
    \o PutText(m.comment) \o PutI32(m.vertex_count)

PutBone(b) ==
    PutText(b.name) \o PutText(<<>>) \o Zeros(12) \o PutI32(b.parent) \o PutI32(0) \o <<0, 0>>

PutAll(Put(_), xs) == Flatten([i \in 1..Len(xs) |-> Put(xs[i])])

\* the width the face indices are written with
FaceWidth(d) == IF d.flags[3] \in {1, 2, 4} THEN d.flags[3] ELSE 1

PutHeader(d) == d.magic \o d.version \o <<8>> \o d.flags

PutNames(d) == PutAll(PutText, d.texts)

PutVertices(d) == PutI32(d.vcount) \o PutAll(PutVertex, d.verts)

PutFaces(d) == PutI32(d.fcount) \o PutAll(LAMBDA t : PutFace(t, FaceWidth(d)), d.faces)

\* A signed index written with the declared width (-1 is 255, 65535 or the
\* int -1).
PutSigned(n, width) ==
    IF width = 4 THEN PutI32(n)
    ELSE PutIndex(IF n >= 0 THEN n ELSE n + (IF width = 2 THEN 65536 ELSE 256), width)

\* The records of a file whose indices are written with the widths its header
\* declares: flags[4] for texture indices, flags[6] for bone indices.
PutPackedVertex(v, width) ==
    Zeros(32) \o <<v.tag>>
    \o (CASE v.tag = 0 -> PutSigned(v.bones[1], width)
          [] OTHER -> PutSigned(v.bones[1], width) \o PutSigned(v.bones[2], width)
                      \o v.weights[1])

PutPackedMaterial(m, width) ==
    PutText(m.name) \o PutText(<<>>) \o Zeros(16) \o Zeros(12) \o Zeros(12)
    \o <<0>> \o Zeros(16) \o PutSigned(m.tex, width) \o PutSigned(-1, width) \o <<0>>
    \o <<1, 0>> \o PutText(m.comment) \o PutI32(m.vertex_count)

PutPackedBone(b, width) ==
    PutText(b.name) \o PutText(<<>>) \o Zeros(12) \o PutSigned(b.parent, width)
    \o PutI32(0) \o <<0, 0>>

\* A bone record in the format's full layout: after the flags the offset of
\* the tail and, for an IK bone (flag 0x0020), the target bone index, the loop
\* count, the limit angle and the links, each a bone index with its angle
\* limits.
PutIkLink(bone) == PutI32(bone) \o <<1>> \o Zeros(24)

PutFullBone(b) ==
    PutText(b.name) \o PutText(<<>>) \o Zeros(12) \o PutI32(b.parent) \o PutI32(0)
    \o (IF b.isIK THEN <<32, 0>> ELSE <<0, 0>>) \o Zeros(12)
    \o (IF b.isIK
        THEN PutI32(b.target) \o PutI32(40) \o Zeros(4) \o PutI32(Len(b.links))
             \o PutAll(PutIkLink, b.links)
        ELSE <<>>)

PutFile(d) ==
    PutHeader(d) \o PutNames(d)
    \o (IF d.family = "widths"
        THEN PutI32(d.vcount) \o PutAll(LAMBDA v : PutPackedVertex(v, d.flags[6]), d.verts)
        ELSE PutVertices(d))
    \o PutFaces(d)
    \o PutI32(d.tcount) \o PutAll(PutText, d.textures)
    \o PutI32(d.mcount)
    \o (IF d.family = "widths"
        THEN PutAll(LAMBDA m : PutPackedMaterial(m, d.flags[4]), d.mats)
        ELSE PutAll(PutMaterial, d.mats))
    \o PutI32(d.bcount)
    \o (IF d.family = "widths"
        THEN PutAll(LAMBDA b : PutPackedBone(b, d.flags[6]), d.bones)
        ELSE IF d.family = "ik" THEN PutAll(PutFullBone, d.bones)
        ELSE PutAll(PutBone, d.bones))

\* "A" in UTF-16LE and in UTF-8, e-acute in UTF-8, an emoji in UTF-16LE
TextA16 == <<65, 0>>
TextA8 == <<65>>
TextE8 == <<195, 169>>
TextEmoji16 == <<61, 216, 0, 222>>

Single(bone) == [tag |-> 0, bones |-> <<bone>>, weights |-> <<>>]

\* A vertex with the given tag byte and a payload of that tag's layout.
Tagged(tag) ==
    [tag |-> tag, bones |-> <<0, 1, 2, 3>>,
     weights |-> <<FloatQuarter, FloatHalf, Float0, FloatQuarter>>]

Mat(name, n) ==
    [name |-> name, tex |-> -1, shared_toon |-> TRUE, comment |-> <<>>, vertex_count |-> n]

\* The single-triangle document: 3 vertices bound Single to bone 0, one face,
\* one material of face_vertex_count 3, one bone.  Encoding flag 0, with its
\* texts in UTF-16LE.
Triangle ==
    [family |-> "triangle", truncate |-> FALSE,
     magic |-> PMXMagic, version |-> Float2, flags |-> <<0, 0, 1, 1, 1, 1, 1, 1>>,
     texts |-> <<TextA16, TextA16, <<>>, <<>>>>,
     vcount |-> 3, verts |-> <<Single(0), Single(0), Single(0)>>,
     fcount |-> 3, faces |-> << <<0, 1, 2>> >>,
     tcount |-> 0, textures |-> <<>>,
     mcount |-> 1, mats |-> <<Mat(TextA16, 3)>>,
     bcount |-> 1, bones |-> <<[name |-> TextA16, parent |-> -1]>>]

\* Text family: every sample text under every encoding flag, in every kind
\* of text field.
TextSamples == {<<>>, TextA16, TextA8, TextE8, TextEmoji16, <<0, 216>>, <<65, 0, 66>>}

TextDocs ==
    {[Triangle EXCEPT !.family = "text",
                      !.flags[1] = enc,
                      !.texts = <<t, t, t, t>>,
                      !.tcount = 1, !.textures = <<t>>,
                      !.mats = <<[Mat(t, 3) EXCEPT !.comment = t]>>,
                      !.bones = <<[name |-> t, parent |-> -1]>>] :
        enc \in {0, 1, 2}, t \in TextSamples}

\* Header family: signatures, version tags, and one index-width byte at a
\* time set to each value 0..5, with and without faces.
Magics == {PMXMagic, <<80, 77, 68, 32>>, <<80, 77, 88, 0>>, <<112, 109, 120, 32>>}

Versions == {Float2, Float2_1, Float9, Float0}

WidthPatterns ==
    {[i \in 1..8 |-> IF i = k THEN w ELSE IF i = 2 THEN 0 ELSE 1] : k \in 3..8, w \in 0..5}

HeaderDocs ==
    {[Triangle EXCEPT !.family = "header", !.magic = mg, !.version = ver, !.flags = fl,
                      !.fcount = 3 * nf, !.faces = [i \in 1..nf |-> <<0, 1, 2>>],
                      !.mats = <<Mat(<<>>, 3 * nf)>>] :
        mg \in Magics, ver \in Versions, fl \in WidthPatterns, nf \in {0, 1}}

\* Weight family: three vertices, every tag byte at every position; the
\* header declares the four-byte bone indices the records are written with.
Tags == (0..MaxTag) \cup {255}

WeightDocs ==
    {[Triangle EXCEPT !.family = "weights", !.flags[6] = 4,
                      !.verts = <<Tagged(t1), Tagged(t2), Tagged(t3)>>] :
        t1 \in Tags, t2 \in Tags, t3 \in Tags}

\* Count family: one section's declared count replaced.
Counts == {-2147483647 - 1, -1, 0, 16777217, 2147483647}

SectionNames == <<"vertices", "faces", "textures", "materials", "bones">>

CountDocs ==
    {[Triangle EXCEPT !.family = "counts",
                      !.vcount = IF sec = 1 THEN c ELSE @,
                      !.fcount = IF sec = 2 THEN c ELSE @,
                      !.tcount = IF sec = 3 THEN c ELSE @,
                      !.mcount = IF sec = 4 THEN c ELSE @,
                      !.bcount = IF sec = 5 THEN c ELSE @] :
        sec \in 1..5, c \in Counts}

\* Face-count family: up to MaxFaces triangles, up to MaxFaces materials
\* whose face_vertex_count is 0, 3, ... 3 * MaxFaces.
RECURSIVE SeqsUpTo(_, _)
SeqsUpTo(S_, n) ==
    IF n = 0 THEN {<<>>}
    ELSE LET shorter == SeqsUpTo(S_, n - 1)
         IN  shorter \cup {Append(q, x) : q \in {r \in shorter : Len(r) = n - 1}, x \in S_}

MaterialDocs ==
    {[Triangle EXCEPT !.family = "materials",
                      !.fcount = 3 * nf, !.faces = [i \in 1..nf |-> <<0, 1, 2>>],
                      !.mcount = Len(vcs),
                      !.mats = [i \in 1..Len(vcs) |-> Mat(<<>>, vcs[i])]] :
        nf \in 0..MaxFaces, vcs \in SeqsUpTo({3 * j : j \in 0..MaxFaces}, MaxFaces)}

\* Truncation family: two well-formed files cut at every length.
Rich ==
    [Triangle EXCEPT !.family = "truncated", !.truncate = TRUE,
                     !.flags = <<1, 0, 2, 1, 1, 1, 1, 1>>,
                     !.texts = <<TextEmoji16, TextA16, TextA16, <<>>>>,
                     !.verts = <<Tagged(0), Tagged(1), Tagged(3)>>,
                     !.tcount = 1, !.textures = <<TextA16>>,
                     !.mats = <<[Mat(TextA16, 3) EXCEPT !.tex = 0, !.shared_toon = FALSE,
                                                        !.comment = TextA16]>>]

TruncatedDocs == {Rich, [Triangle EXCEPT !.family = "truncated", !.truncate = TRUE]}

\* Face family: the one face's last index in and out of the range of the 3
\* vertices, under every face-index width.
FaceDocs ==
    {[Triangle EXCEPT !.family = "faces", !.flags[3] = width, !.faces = << <<0, 1, k>> >>] :
        width \in {1, 2, 4}, k \in {2, 3, 255}}

\* Skin family: four bones; the first vertex bound Single, Dual, Quad (the
\* scenario bones [0,1,2,3], weights [0.5,0.5,0,0]) or SphericalDual.
SkinBindings ==
    {Single(1),
     [tag |-> 1, bones |-> <<0, 1>>, weights |-> <<FloatQuarter>>],
     [tag |-> 2, bones |-> <<0, 1, 2, 3>>, weights |-> <<FloatHalf, FloatHalf, Float0, Float0>>],
     [tag |-> 3, bones |-> <<2, 3>>, weights |-> <<FloatQuarter>>]}

SkinDocs ==
    {[Triangle EXCEPT !.family = "skin", !.verts = <<v, Single(0), Single(0)>>,
                      !.bcount = 4,
                      !.bones = [k \in 1..4 |-> [name |-> <<65 + k, 0>>, parent |-> -1]]] :
        v \in SkinBindings}

\* Width family: two bones, the second a child of the first, one texture,
\* every index written with the width the header declares for its kind.
WidthDocs ==
    {[Triangle EXCEPT !.family = "widths",
                      !.flags[3] = vw, !.flags[4] = tw, !.flags[6] = bw,
                      !.verts = <<v, Single(1), Single(0)>>,
                      !.tcount = 1, !.textures = <<TextA16>>,
                      !.mats = <<[Mat(TextA16, 3) EXCEPT !.tex = 0]>>,
                      !.bcount = 2,
                      !.bones = <<[name |-> TextA16, parent |-> -1],
                                  [name |-> TextA16, parent |-> 0]>>] :
        vw \in {1, 2, 4}, tw \in {1, 2, 4}, bw \in {1, 2, 4},
        v \in {Single(1), [tag |-> 1, bones |-> <<0, 1>>, weights |-> <<FloatQuarter>>]}}

\* IK family: three bones with four-byte indices; the first is an IK bone
\* whose target and links are bones declared after it.
FullBone(name) == [name |-> name, parent |-> -1, isIK |-> FALSE, target |-> -1, links |-> <<>>]

IkDocs ==
    {[Triangle EXCEPT !.family = "ik", !.flags[6] = 4, !.bcount = 3,
                      !.bones = <<[FullBone(TextA16) EXCEPT !.isIK = TRUE, !.target = t,
                                                            !.links = ls],
                                  FullBone(<<66, 0>>), FullBone(<<67, 0>>)>>] :
        t \in {1, 2}, ls \in {<<>>, <<1>>, <<2, 1>>}}

Docs == {Triangle} \cup TextDocs \cup HeaderDocs \cup WeightDocs \cup CountDocs
        \cup MaterialDocs \cup TruncatedDocs \cup FaceDocs \cup SkinDocs \cup WidthDocs
        \cup IkDocs

\* the lengths a description's file is cut to
Cuts(d) == IF d.truncate THEN 0..Len(PutFile(d)) ELSE {Len(PutFile(d))}

\* ------------------------------------------------------------------------
\* mmd_parser.load_pmx_file, one step per section.  A decoder state d holds
\* the cursor, the locals of load_pmx_file read so far, the exception raised,
\* and two histories: the sections whose decoding began, and whether a read
\* came up short without raising.
\* ------------------------------------------------------------------------
DecoderStart ==
    [pc |-> "magic", pos |-> 0, err |-> NoErr, short |-> FALSE, sections |-> <<>>,
     header |-> None, encoding |-> "", names |-> None, vertices |-> None, faces |-> None,
     textures |-> None, materials |-> None, bones |-> None, doc |-> None]

\* an exception r.err leaves load_pmx_file
Fail(d, r) == [d EXCEPT !.pc = "raised", !.pos = r.pos, !.err = r.err,
                        !.short = @ \/ r.short]

Begin(d, section) == [d EXCEPT !.sections = Append(@, section)]

\* the reads r of a section: they raise, or the section's locals are bound
\* from them by Assign and load_pmx_file goes on at next
Step(d, section, r, next, Assign(_, _)) ==
    IF ~r.ok THEN Fail(Begin(d, section), r)
    ELSE Assign([Begin(d, section) EXCEPT !.pc = next, !.pos = r.pos,
                                          !.short = @ \/ r.short], r.val)

\* the signature bytes bs that f.read(4) returned
CheckMagic(d, bs) ==
    IF bs # PMXMagic
    THEN Fail(d, Raise(d.pos + Len(bs), Err("ValueError", "Not a valid PMX file", 0), FALSE))
    ELSE [d EXCEPT !.pc = "header", !.pos = d.pos + Len(bs)]

\* A decoder that reads the signature and does not compare it.
LoadMagicUnchecked(f, d) ==
    [d EXCEPT !.pc = "header", !.pos = d.pos + Len(Read(f, d.pos, 4))]

\* "if f.read(4) != b'PMX ': raise ValueError"
LoadMagic(f, d) == CheckMagic(d, Read(f, d.pos, 4))

\* "encoding = 'utf-16-le' if f.read(1)[0] else 'utf-8'"
EncodingOf(flag) == IF flag # 0 THEN "utf-16-le" ELSE "utf-8"

Header(v) ==
    [version |-> v[1][1], header_size |-> v[2][1], encoding_flag |-> v[3],
     additional_vec4s |-> v[4], vertex_index_size |-> v[5], texture_index_size |-> v[6],
     material_index_size |-> v[7], bone_index_size |-> v[8], morph_index_size |-> v[9],
     rigid_body_index_size |-> v[10]]

\* version, header_size and the eight header bytes
LoadHeader(f, d) ==
    Step(d, "header",
         ReadItems(f, d.pos, "", <<S(<<"f">>), S(<<"b">>), B1, B1, B1, B1, B1, B1, B1, B1>>),
         "names",
         LAMBDA e, v : [e EXCEPT !.encoding = EncodingOf(v[3]), !.header = Header(v)])

\* name_jp, name_en, comment_jp, comment_en
LoadNames(f, d) ==
    Step(d, "names", ReadItems(f, d.pos, d.encoding, <<T, T, T, T>>), "vertices",
         LAMBDA e, v : [e EXCEPT !.names = v])

LoadVertices(f, d) ==
    Step(d, "vertices", Section(_read_vertices, f, d.pos), "faces",
         LAMBDA e, v : [e EXCEPT !.vertices = v])

LoadFaces(f, d) ==
    Step(d, "faces",
         Section(LAMBDA ff, p, c : _read_faces(ff, p, c, d.header.vertex_index_size), f, d.pos),
         "textures",
         LAMBDA e, v : [e EXCEPT !.faces = v])

LoadTextures(f, d) ==
    Step(d, "textures",
         Section(LAMBDA ff, p, c : _read_textures(ff, p, c, d.encoding), f, d.pos),
         "materials",
         LAMBDA e, v : [e EXCEPT !.textures = v])

LoadMaterials(f, d) ==
    Step(d, "materials",
         Section(LAMBDA ff, p, c : _read_materials(ff, p, c, d.encoding), f, d.pos),
         "bones",
         LAMBDA e, v : [e EXCEPT !.materials = v])

LoadBones(f, d) ==
    Step(d, "bones",
         Section(LAMBDA ff, p, c : _read_bones(ff, p, c, d.encoding), f, d.pos),
         "return",
         LAMBDA e, v : [e EXCEPT !.bones = v])

\* the dictionary load_pmx_file returns
Document(d) ==
    [name |-> d.names[1], name_en |-> d.names[2], vertices |-> d.vertices,
     faces |-> d.faces, textures |-> d.textures, materials |-> d.materials,
     bones |-> d.bones]

LoadReturn(d) == [d EXCEPT !.pc = "returned", !.doc = Document(d)]

\* the decoder state e that follows d when d is at the statement at
Then(d, at, e) == IF d.pc = at THEN e ELSE d

\* load_pmx_file(filepath) on the bytes f, run to its end
load_pmx_file(f) ==
    LET d1 == LoadMagic(f, DecoderStart)
        d2 == Then(d1, "header", LoadHeader(f, d1))
        d3 == Then(d2, "names", LoadNames(f, d2))
        d4 == Then(d3, "vertices", LoadVertices(f, d3))
        d5 == Then(d4, "faces", LoadFaces(f, d4))
        d6 == Then(d5, "textures", LoadTextures(f, d5))
        d7 == Then(d6, "materials", LoadMaterials(f, d6))
        d8 == Then(d7, "bones", LoadBones(f, d7))
    IN  Then(d8, "return", LoadReturn(d8))

\* ------------------------------------------------------------------------
\* State
\* ------------------------------------------------------------------------
VARIABLES
    gen,        \* the description the input file was written from
    cut,        \* the length the file was cut to
    file,       \* the bytes of the file at filepath
    pc,         \* the statement PMXImporter.execute is at
    dec,        \* the state of load_pmx_file
    importer,   \* the PMXImporter instance (self)
    progress,   \* the ProgressTracker of execute
    wm,         \* context.window_manager: its progress indicator
    scene,      \* the host scene: what the import created in it
    raised,     \* the exception execute caught
    result,     \* what execute returns
    log,        \* the records passed to logger
    calls       \* history: the stage methods execute called

vars == <<gen, cut, file, pc, dec, importer, progress, wm, scene, raised, result, log, calls>>

\* ops is the sequence of the operations the host was asked for, in order.
EmptyScene ==
    [meshes |-> <<>>, armatures |-> <<>>, bones |-> <<>>, vertex_groups |-> <<>>,
     materials |-> <<>>, face_materials |-> <<>>, ops |-> <<>>]

\* PMXImporter.__init__
NewImporter ==
    [model |-> None, scale |-> One, use_mipmap |-> TRUE,
     sph_blend_factor |-> One, spa_blend_factor |-> One,
     armature_obj |-> None, mesh_obj |-> None, root_obj |-> None,
     bone_table |-> <<>>, material_table |-> <<>>, texture_table |-> <<>>,
     rigid_table |-> <<>>, vertex_group_table |-> None, material_face_count |-> <<>>,
     image_table |-> <<>>, sdef_vertices |-> <<>>, blender_ik_links |-> {}]

\* A tracker made for no steps at all.
ProgressTrackerNoSteps(total_steps) == [total |-> 0, current |-> 0]

\* ProgressTracker.__init__(context, total_steps, operation_name)
ProgressTracker(total_steps) == [total |-> total_steps, current |-> 0]

\* ProgressTracker.step: the tracker and the window manager after it, and
\* the exception raised.  current is incremented first; for a total of 0 the
\* division raises before the indicator is touched.
\* The indicator's value current / total * 100 is kept as <<current * 100, total>>.
step(p, w) ==
    IF p.total = 0
    THEN [progress |-> [p EXCEPT !.current = @ + 1], wm |-> w,
          err |-> Err("ZeroDivisionError", "division by zero", 0)]
    ELSE [progress |-> [p EXCEPT !.current = @ + 1],
          wm |-> [w EXCEPT !.begun = @ + 1, !.value = <<(p.current + 1) * 100, p.total>>],
          err |-> NoErr]

Init ==
    /\ gen \in Docs
    /\ cut \in Cuts(gen)
    /\ file = SubSeq(PutFile(gen), 1, cut)
    /\ pc = "start"
    /\ dec = DecoderStart
    /\ importer = NewImporter
    /\ progress = None
    /\ wm = [begun |-> 0, value |-> <<0, 1>>, ended |-> 0]
    /\ scene = EmptyScene
    /\ raised = NoErr
    /\ result = None
    /\ log = <<>>
    /\ calls = <<>>

\* ------------------------------------------------------------------------
\* PMXImporter.execute
\* ------------------------------------------------------------------------
\* "with ProgressTracker(context, 8, ...) as progress", the settings taken
\* from the options (none given: the defaults), and the call of
\* self._load_pmx_file(filepath), which opens the file.
Execute ==
    /\ pc = "start"
    /\ progress' = ProgressTracker(8)
    /\ log' = Append(log, <<"info", "Starting Importing PMX">>)
    /\ importer' = [importer EXCEPT !.scale = One, !.use_mipmap = TRUE,
                                    !.sph_blend_factor = One, !.spa_blend_factor = One]
    /\ pc' = "load"
    /\ UNCHANGED <<gen, cut, file, dec, wm, scene, raised, result, calls>>

\* A step of load_pmx_file that only reads: the decoder goes from d to e.
Decoding(at, e) ==
    /\ pc = "load"
    /\ dec.pc = at
    /\ dec' = e
    /\ UNCHANGED <<gen, cut, file, pc, importer, progress, wm, scene, raised, result, log, calls>>

DecodeMagic == Decoding("magic", LoadMagic(file, dec))

DecodeHeader == Decoding("header", LoadHeader(file, dec))

DecodeNames == Decoding("names", LoadNames(file, dec))

DecodeVertices == Decoding("vertices", LoadVertices(file, dec))

DecodeFaces == Decoding("faces", LoadFaces(file, dec))

DecodeTextures == Decoding("textures", LoadTextures(file, dec))

DecodeMaterials == Decoding("materials", LoadMaterials(file, dec))

DecodeBones == Decoding("bones", LoadBones(file, dec))

\* load_pmx_file returns its dictionary, _load_pmx_file returns it, and
\* execute assigns it to self.model.
DecodeReturn ==
    /\ pc = "load"
    /\ dec.pc = "return"
    /\ dec' = LoadReturn(dec)
    /\ importer' = [importer EXCEPT !.model = Document(dec)]
    /\ pc' = "step_objects"
    /\ UNCHANGED <<gen, cut, file, progress, wm, scene, raised, result, log, calls>>

\* A _load_pmx_file that logs the exception and does not re-raise it.
LoadPmxFileSwallow ==
    /\ pc = "load"
    /\ dec.pc = "raised"
    /\ log' = Append(log, <<"error", "Failed to load PMX file">>)
    /\ pc' = "step_objects"
    /\ UNCHANGED <<gen, cut, file, dec, importer, progress, wm, scene, raised, result, calls>>

\* _load_pmx_file: "except Exception as e: logger.error(...); raise"
LoadPmxFileRaise ==
    /\ pc = "load"
    /\ dec.pc = "raised"
    /\ log' = Append(log, <<"error", "Failed to load PMX file">>)
    /\ raised' = dec.err
    /\ pc' = "except"
    /\ UNCHANGED <<gen, cut, file, dec, importer, progress, wm, scene, result, calls>>

\* progress.step("Creating objects")
StepCreatingObjects ==
    /\ pc = "step_objects"
    /\ progress' = step(progress, wm).progress
    /\ wm' = step(progress, wm).wm
    /\ IF step(progress, wm).err = NoErr
       THEN /\ log' = Append(log, <<"debug", "Creating objects">>)
            /\ pc' = "create_base_objects"
            /\ UNCHANGED raised
       ELSE /\ raised' = step(progress, wm).err
            /\ pc' = "except"
            /\ UNCHANGED log
    /\ UNCHANGED <<gen, cut, file, dec, importer, scene, result, calls>>

\* "self._create_base_objects(context)": PMXImporter defines no such method,
\* so the attribute lookup raises AttributeError.
CreateBaseObjects ==
    /\ pc = "create_base_objects"
    /\ calls' = Append(calls, "_create_base_objects")
    /\ raised' = Err("AttributeError", "_create_base_objects", 0)
    /\ pc' = "except"
    /\ UNCHANGED <<gen, cut, file, dec, importer, progress, wm, scene, result, log>>

\* An exception handler that logs the exception and reports success.
ExceptFinished ==
    /\ pc = "except"
    /\ log' = Append(log, <<"error", "PMX import failed">>)
    /\ result' = "FINISHED"
    /\ pc' = "exit"
    /\ UNCHANGED <<gen, cut, file, dec, importer, progress, wm, scene, raised, calls>>

\* An exception handler that logs the exception and goes on with the import.
ExceptResume ==
    /\ pc = "except"
    /\ log' = Append(log, <<"error", "PMX import failed">>)
    /\ pc' = "step_objects"
    /\ UNCHANGED <<gen, cut, file, dec, importer, progress, wm, scene, raised, result, calls>>

\* "except Exception as e: logger.error(...); return {'CANCELLED'}"
Except ==
    /\ pc = "except"
    /\ log' = Append(log, <<"error", "PMX import failed">>)
    /\ result' = "CANCELLED"
    /\ pc' = "exit"
    /\ UNCHANGED <<gen, cut, file, dec, importer, progress, wm, scene, raised, calls>>

\* ProgressTracker.__exit__, and execute returns
Exit ==
    /\ pc = "exit"
    /\ wm' = [wm EXCEPT !.ended = @ + 1]
    /\ log' = Append(log, <<"info", "Completed Importing PMX">>)
    /\ pc' = "done"
    /\ UNCHANGED <<gen, cut, file, dec, importer, progress, scene, raised, result, calls>>

Next ==
    \/ Execute
    \/ DecodeMagic
    \/ DecodeHeader
    \/ DecodeNames
    \/ DecodeVertices
    \/ DecodeFaces
    \/ DecodeTextures
    \/ DecodeMaterials
    \/ DecodeBones
    \/ DecodeReturn
    \/ LoadPmxFileRaise
    \/ StepCreatingObjects
    \/ CreateBaseObjects
    \/ Except
    \/ Exit

Spec == Init /\ [][Next]_vars

\* ------------------------------------------------------------------------
\* The stage methods of PMXImporter, each called on an importer whose model
\* is an object of the shape the method reads (attributes vertices, bones,
\* morphs, rigid_bodies, joints) and whose base objects exist.  A stage state
\* st holds the importer (self), the host operations so far (ops) and the
\* exception that left the method (err); a statement after an exception does
\* nothing.
\* ------------------------------------------------------------------------
\* Number of bones of the models the stages are called with.
StageBones == 4

\* seq[k] of Python: the position (from 1) of the element k denotes in a
\* sequence of n elements, negative k counting from the end; 0 = IndexError.
Index(n, k) ==
    IF k >= 0 /\ k < n THEN k + 1
    ELSE IF k < 0 /\ k >= -n THEN n + k + 1
    ELSE 0

\* m is an object with attributes, not the dict load_pmx_file returns
IsObject(m) == "object" \in DOMAIN m

StageStart(self) == [self |-> self, ops |-> <<>>, err |-> NoErr]

\* the host operation op is carried out
Do(st, op) == IF st.err # NoErr THEN st ELSE [st EXCEPT !.ops = Append(@, op)]

\* the exception e is raised
Throw(st, e) == IF st.err # NoErr THEN st ELSE [st EXCEPT !.err = e]

\* Vector(v).xzy
Xzy(v) == <<v[1], v[3], v[2]>>

\* x * scale is exact in double precision.  It is x for the scale 1.0 and
\* again a value n/256 when the product of two such values is one; the
\* product of two small values n/256 that is none is <<"q16", m>>, the value
\* m/65536; any other product is kept as the pair of its factors.
Times(x, scale) ==
    IF scale = One THEN x
    ELSE IF x[1] = "q" /\ scale[1] = "q" /\ ((x[2] % 256) * (scale[2] % 256)) % 256 = 0
    THEN <<"q", (x[2] \div 256) * scale[2] + ((x[2] % 256) * scale[2]) \div 256>>
    ELSE IF x[1] = "q" /\ scale[1] = "q" /\ x[2] \in -32767..32767 /\ scale[2] \in -32767..32767
    THEN <<"q16", x[2] * scale[2]>>
    ELSE <<"*", x, scale>>

Scaled(v, scale) == [i \in 1..3 |-> Times(Xzy(v)[i], scale)]

\* "self.vertex_group_table[bone].add([i], weight, mode)"
AddWeight(st, bone, i, weight, mode) ==
    IF Index(Len(st.self.vertex_group_table), bone) = 0
    THEN Throw(st, Err("IndexError", "list index out of range", bone))
    ELSE Do(st, <<"vertex_group.add", Index(Len(st.self.vertex_group_table), bone) - 1,
                  i, weight, mode>>)

\* "for bone_idx, weight in zip(bones, weights): if weight > 0: ... 'ADD'",
\* from slot k on
RECURSIVE AddPositive(_, _, _, _, _)
AddPositive(st, bones, weights, i, k) ==
    IF k > MinOf(Len(bones), Len(weights)) THEN st
    ELSE AddPositive(IF Positive(weights[k])
                     THEN AddWeight(st, bones[k], i, weights[k], "ADD")
                     ELSE st,
                     bones, weights, i, k + 1)

\* weights[0]
FirstWeight(st, weights) ==
    IF weights = <<>> THEN Throw(st, Err("IndexError", "list index out of range", 0)) ELSE st

\* the two assignments of a binding with two bones; the group
\* "self.vertex_group_table[bones[0]]" is looked up before the argument
\* "weights[0]" is evaluated
AddDual(st, bones, weights, i) ==
    IF Index(Len(st.self.vertex_group_table), bones[1]) = 0
    THEN Throw(st, Err("IndexError", "list index out of range", bones[1]))
    ELSE IF weights = <<>> THEN FirstWeight(st, weights)
    ELSE AddWeight(AddWeight(st, bones[1], i, weights[1], "REPLACE"),
                   bones[2], i, OneMinus(weights[1]), "REPLACE")

\* One iteration of the weight loop: vertex i (from 0) with pv.weight = w.
AssignWeights(st, i, w) ==
    CASE Len(w.bones) = 1 -> AddWeight(st, w.bones[1], i, One, "REPLACE")
      [] Len(w.bones) = 2 -> AddDual(st, w.bones, w.weights, i)
      [] Len(w.bones) = 4 -> AddPositive(st, w.bones, w.weights, i, 1)
      [] OTHER -> st

RECURSIVE WeightLoop(_, _, _)
WeightLoop(st, vertices, i) ==
    IF i >= Len(vertices) THEN st
    ELSE WeightLoop(AssignWeights(st, i, vertices[i + 1].weight), vertices, i + 1)

\* "for bone in self.model.bones: vg = ...vertex_groups.new(name=bone.name)",
\* from bone k on
RECURSIVE NewVertexGroups(_, _, _)
NewVertexGroups(st, bones, k) ==
    IF k > Len(bones) THEN st
    ELSE NewVertexGroups(
            [Do(st, <<"vertex_groups.new", bones[k].name>>)
                EXCEPT !.self.vertex_group_table = Append(@, bones[k].name)],
            bones, k + 1)

\* "mesh.vertices.add(...)" and "mesh.vertices.foreach_set('co', ...)"
NewVertices(st, vertices) ==
    Do(Do(st, <<"vertices.add", Len(vertices)>>),
       <<"vertices.foreach_set", "co",
         [i \in 1..Len(vertices) |-> Scaled(vertices[i].co, st.self.scale)]>>)

\* PMXImporter._import_vertices
_import_vertices(self) ==
    IF self.mesh_obj = None
    THEN Throw(StageStart(self), Err("AttributeError", "data", 0))
    ELSE IF ~IsObject(self.model)
    THEN Throw(StageStart(self), Err("AttributeError", "vertices", 0))
    ELSE WeightLoop(
            NewVertexGroups(
                [NewVertices(StageStart(self), self.model.vertices)
                    EXCEPT !.self.vertex_group_table = <<>>],
                self.model.bones, 1),
            self.model.vertices, 0)

\* "for link in pmx_bone.ik_links: if link.angle_limit: ...", from link k on
RECURSIVE IkLimits(_, _, _)
IkLimits(st, links, k) ==
    IF k > Len(links) THEN st
    ELSE IkLimits(
            IF ~links[k].angle_limit THEN st
            ELSE IF Index(Len(st.self.bone_table), links[k].bone_index) = 0
            THEN Throw(st, Err("IndexError", "list index out of range", links[k].bone_index))
            ELSE Do(st, <<"ik_limit", Index(Len(st.self.bone_table), links[k].bone_index) - 1,
                          links[k].min_angle, links[k].max_angle>>),
            links, k + 1)

\* PMXImporter._create_ik_constraint, for pose bone i (from 0)
_create_ik_constraint(st, i, pmx_bone) ==
    IF pmx_bone.target_index < 0 THEN st
    ELSE IF Index(Len(st.self.bone_table), pmx_bone.target_index) = 0
    THEN Throw(st, Err("IndexError", "list index out of range", pmx_bone.target_index))
    ELSE IkLimits(
            Do(st, <<"constraints.new", i, "IK", st.self.armature_obj,
                     st.self.bone_table[Index(Len(st.self.bone_table), pmx_bone.target_index)],
                     Len(pmx_bone.ik_links), pmx_bone.loop_count>>),
            pmx_bone.ik_links, 1)

\* The offset of the tail from the head: the scaled tail position, or the
\* constant Vector((0, 0.1, 0)).
DefaultTail == <<"Vector", 0, "0.1", 0>>

\* (a tail position that is not None is the record [xyz |-> coordinates])
TailOffset(bone, scale) ==
    IF bone.tail_position # None THEN Scaled(bone.tail_position.xyz, scale) ELSE DefaultTail

\* One iteration of the edit-bone loop, for bone k (from 1).
NewEditBone(st, bone, k) ==
    IF bone.parent_index >= k
    THEN Throw(Do(st, <<"edit_bones.new", bone.name, Scaled(bone.position, st.self.scale),
                        TailOffset(bone, st.self.scale)>>),
               Err("IndexError", "list index out of range", bone.parent_index))
    ELSE Do(st, <<"edit_bones.new", bone.name, Scaled(bone.position, st.self.scale),
                  TailOffset(bone, st.self.scale)>>
                \o (IF bone.parent_index >= 0 THEN <<"parent", bone.parent_index>> ELSE <<>>))

RECURSIVE EditBones(_, _, _)
EditBones(st, bones, k) ==
    IF k > Len(bones) THEN st ELSE EditBones(NewEditBone(st, bones[k], k), bones, k + 1)

\* "for i, bone in enumerate(self.model.bones): ...", from bone i (from 0) on
RECURSIVE PoseBones(_, _, _)
PoseBones(st, bones, i) ==
    IF i >= Len(bones) THEN st
    ELSE PoseBones(
            IF bones[i + 1].additional_transform # None
            THEN Throw(IF bones[i + 1].isIK
                       THEN _create_ik_constraint(st, i, bones[i + 1]) ELSE st,
                       Err("AttributeError", "_create_additional_transform", 0))
            ELSE IF bones[i + 1].isIK THEN _create_ik_constraint(st, i, bones[i + 1])
            ELSE st,
            bones, i + 1)

\* "self.bone_table = pose_bones": the pose bones of the armature, one for
\* each edit bone
SetBoneTable(st, bones) ==
    IF st.err # NoErr THEN st
    ELSE [Do(st, <<"mode_set", "POSE">>)
            EXCEPT !.self.bone_table = [k \in 1..Len(bones) |-> bones[k].name]]

\* PMXImporter._import_bones
_import_bones(self) ==
    PoseBones(
        SetBoneTable(EditBones(Do(StageStart(self), <<"mode_set", "EDIT">>),
                               self.model.bones, 1),
                     self.model.bones),
        self.model.bones, 0)

\* "for offset in morph.offsets: shape_key.data[offset.index].co += ...", from
\* offset k on; the shape key has one point for each vertex of the mesh
RECURSIVE ShapeKeyOffsets(_, _, _, _)
ShapeKeyOffsets(st, name, offsets, k) ==
    IF k > Len(offsets) THEN st
    ELSE ShapeKeyOffsets(
            IF Index(Len(st.self.model.vertices), offsets[k].index) = 0
            THEN Throw(st, Err("IndexError", "list index out of range", offsets[k].index))
            ELSE Do(st, <<"shape_key.co+=", name,
                          Index(Len(st.self.model.vertices), offsets[k].index) - 1,
                          Scaled(offsets[k].offset, st.self.scale)>>),
            name, offsets, k + 1)

\* "for morph in self.model.morphs: if morph.type == 1: ...", from morph k on
RECURSIVE VertexMorphs(_, _, _)
VertexMorphs(st, morphs, k) ==
    IF k > Len(morphs) THEN st
    ELSE VertexMorphs(
            IF morphs[k].type = 1
            THEN ShapeKeyOffsets(Do(st, <<"shape_key_add", morphs[k].name>>),
                                 morphs[k].name, morphs[k].offsets, 1)
            ELSE st,
            morphs, k + 1)

\* "for offset in morph.offsets: if offset.material_index < len(...): ...",
\* from offset k on; _apply_material_morph is not defined
RECURSIVE MaterialOffsets(_, _, _)
MaterialOffsets(st, offsets, k) ==
    IF k > Len(offsets) THEN st
    ELSE MaterialOffsets(
            IF offsets[k].material_index >= Len(st.self.material_table) THEN st
            ELSE IF Index(Len(st.self.material_table), offsets[k].material_index) = 0
            THEN Throw(st, Err("IndexError", "list index out of range",
                               offsets[k].material_index))
            ELSE Throw(st, Err("AttributeError", "_apply_material_morph", 0)),
            offsets, k + 1)

\* "for morph in self.model.morphs: if morph.type == 8: ...", from morph k on
RECURSIVE MaterialMorphs(_, _, _)
MaterialMorphs(st, morphs, k) ==
    IF k > Len(morphs) THEN st
    ELSE MaterialMorphs(
            IF morphs[k].type = 8 THEN MaterialOffsets(st, morphs[k].offsets, 1) ELSE st,
            morphs, k + 1)

\* PMXImporter._import_morphs
_import_morphs(self) ==
    IF self.mesh_obj = None
    THEN Throw(StageStart(self), Err("AttributeError", "data", 0))
    ELSE MaterialMorphs(
            VertexMorphs(
                IF self.mesh_obj.shape_keys THEN StageStart(self)
                ELSE Do(StageStart(self), <<"shape_key_add", "Basis">>),
                self.model.morphs, 1),
            self.model.morphs, 1)

\* PMXImporter._get_collision_shape
_get_collision_shape(shape_type) ==
    CASE shape_type = 0 -> "SPHERE"
      [] shape_type = 1 -> "BOX"
      [] shape_type = 2 -> "CAPSULE"
      [] OTHER -> "SPHERE"

\* the host object made for a rigid body
RigidObject(rigid) == [object |-> "rigid", name |-> rigid.name]

\* "self.rigid_table[i] = obj" on a dict
SetItem(table, i, obj) ==
    [k \in (DOMAIN table) \cup {i} |-> IF k = i THEN obj ELSE table[k]]

\* One iteration of the rigid-body loop, for rigid body i (from 0).
NewRigidBody(st, i, rigid) ==
    IF st.err # NoErr THEN st
    ELSE IF rigid.bone_index >= 0 /\ Index(Len(st.self.bone_table), rigid.bone_index) = 0
    THEN Throw(Do(st, <<"objects.new", <<"rigid_", rigid.name>>, "SPHERE",
                        Scaled(rigid.position, st.self.scale), Xzy(rigid.rotation),
                        IF rigid.physics_mode = 0 THEN "ACTIVE" ELSE "PASSIVE",
                        _get_collision_shape(rigid.shape_type),
                        rigid.mass, rigid.friction, rigid.restitution>>),
               Err("IndexError", "list index out of range", rigid.bone_index))
    ELSE [Do(st, <<"objects.new", <<"rigid_", rigid.name>>, "SPHERE",
                   Scaled(rigid.position, st.self.scale), Xzy(rigid.rotation),
                   IF rigid.physics_mode = 0 THEN "ACTIVE" ELSE "PASSIVE",
                   _get_collision_shape(rigid.shape_type),
                   rigid.mass, rigid.friction, rigid.restitution>>
                 \o (IF rigid.bone_index >= 0
                     THEN <<"CHILD_OF", st.self.armature_obj,
                            st.self.bone_table[rigid.bone_index + 1]>>
                     ELSE <<>>))
            EXCEPT !.self.rigid_table = SetItem(@, i, RigidObject(rigid))]

\* PMXImporter._import_rigid_bodies, from rigid body i (from 0) on
RECURSIVE RigidBodies(_, _, _)
RigidBodies(st, rigid_bodies, i) ==
    IF i >= Len(rigid_bodies) THEN st
    ELSE RigidBodies(NewRigidBody(st, i, rigid_bodies[i + 1]), rigid_bodies, i + 1)

_import_rigid_bodies(self) == RigidBodies(StageStart(self), self.model.rigid_bodies, 0)

\* PMXImporter._set_joint_limits: the linear limits times the scale, the
\* angular limits
_set_joint_limits(joint, scale) ==
    <<[i \in 1..3 |-> Times(joint.linear_lower_limit[i], scale)],
      [i \in 1..3 |-> Times(joint.linear_upper_limit[i], scale)],
      joint.angular_lower_limit, joint.angular_upper_limit>>

\* "if joint.rigid_body_x in self.rigid_table: ... = self.rigid_table[...]"
Connected(table, k) == IF k \in DOMAIN table THEN table[k] ELSE None

\* One iteration of the joint loop.
NewJoint(st, joint) ==
    Do(st, <<"objects.new", <<"joint_", joint.name>>, "ARROWS",
             Scaled(joint.position, st.self.scale), Xzy(joint.rotation), "GENERIC_SPRING",
             Connected(st.self.rigid_table, joint.rigid_body_a),
             Connected(st.self.rigid_table, joint.rigid_body_b),
             _set_joint_limits(joint, st.self.scale)>>)

\* PMXImporter._import_joints, from joint k on
RECURSIVE Joints(_, _, _)
Joints(st, joints, k) ==
    IF k > Len(joints) THEN st ELSE Joints(NewJoint(st, joints[k]), joints, k + 1)

_import_joints(self) == Joints(StageStart(self), self.model.joints, 1)

\* ------------------------------------------------------------------------
\* The models the stage methods are called with.
\* ------------------------------------------------------------------------
Zero == <<"q", 0>>
Quarter == <<"q", 64>>
Half == <<"q", 128>>

Origin == <<Zero, Zero, Zero>>

\* bone k (from 0) of a model: no IK, no parent
PlainBone(k) ==
    [name |-> <<"bone", k>>, position |-> Origin, tail_position |-> None,
     parent_index |-> -1, isIK |-> FALSE, target_index |-> -1, ik_links |-> <<>>,
     loop_count |-> 0, additional_transform |-> None]

PlainBones == [k \in 1..StageBones |-> PlainBone(k - 1)]

StageVertex(bones, weights) ==
    [co |-> <<One, Half, Quarter>>, normal |-> <<Zero, Zero, One>>,
     weight |-> [bones |-> bones, weights |-> weights]]

\* bone indices inside and outside the bones of the model
BoneSamples == {-StageBones - 1, -1, 0, 1, StageBones - 1, StageBones}

SingleSamples == {StageVertex(<<b>>, <<One>>) : b \in BoneSamples}

DualSamples ==
    {StageVertex(<<a, b>>, <<w>>) :
        a \in {-1, 0, 1, StageBones}, b \in {-1, 0, 1, StageBones}, w \in {Zero, Quarter, One}}

QuadSamples ==
    {StageVertex(bs, ws) :
        bs \in {<<0, 1, 2, 3>>, <<3, 2, 1, 0>>, <<0, 0, 1, 1>>, <<0, 1, -1, StageBones>>,
                <<StageBones, 0, 1, 2>>, <<-1, 0, 1, 2>>},
        ws \in {<<Half, Half, Zero, Zero>>, <<Quarter, Quarter, Quarter, Quarter>>,
                <<Zero, Zero, Zero, One>>, <<Zero, Zero, Zero, Zero>>,
                <<Half, Zero, Half, Zero>>}}

\* the scenario vertex: Quad{bones: [0,1,2,3], weights: [0.5,0.5,0,0]}
QuadScenario == StageVertex(<<0, 1, 2, 3>>, <<Half, Half, Zero, Zero>>)

\* two bones and no weight: "weights[0]" has nothing to read
WeightlessSamples == {StageVertex(<<a, 0>>, <<>>) : a \in {0, StageBones}}

VertexSamples ==
    SingleSamples \cup DualSamples \cup WeightlessSamples \cup QuadSamples
    \cup {StageVertex(<<0, 1, 2>>, <<Half>>)}

\* a host object
Handle(name) == [object |-> name, shape_keys |-> FALSE]

\* a call of a stage method on an importer prepared with the given attributes
StageCall(stage, model, mesh_obj) ==
    [family |-> "stage", truncate |-> FALSE, stage |-> stage, model |-> model,
     mesh_obj |-> mesh_obj, bone_table |-> <<>>, material_table |-> <<>>,
     rigid_table |-> <<>>]

NoSection == <<>>

StageObject(vertices, bones) ==
    [object |-> "model", vertices |-> vertices, bones |-> bones, morphs |-> NoSection,
     rigid_bodies |-> NoSection, joints |-> NoSection]

\* a dict of the sections, as load_pmx_file returns
DecodedDict == [vertices |-> <<>>, faces |-> <<>>, bones |-> <<>>]

\* _import_vertices on one vertex, on the scenario vertex and another one,
\* on another one and the scenario vertex, on an importer without mesh, and
\* on a dict
VertexCalls ==
    {StageCall("_import_vertices", StageObject(vs, PlainBones), Handle("mesh")) :
        vs \in {<<v>> : v \in VertexSamples}
               \cup {<<QuadScenario, v>> : v \in VertexSamples}
               \cup {<<v, QuadScenario>> : v \in VertexSamples}}
    \cup {StageCall("_import_vertices", StageObject(<<QuadScenario>>, PlainBones), None),
          StageCall("_import_vertices", DecodedDict, Handle("mesh"))}

\* an IK link
Link(bone_index, angle_limit) ==
    [bone_index |-> bone_index, angle_limit |-> angle_limit,
     min_angle |-> <<Zero, Zero, Zero>>, max_angle |-> <<Quarter, Half, One>>]

LinkSamples ==
    {<<>>, <<Link(0, TRUE)>>, <<Link(StageBones, TRUE)>>, <<Link(StageBones, FALSE)>>,
     <<Link(0, FALSE), Link(-1, TRUE)>>}

\* an IK bone, and a bone with a parent
IKBone(k, target_index, links, additional_transform) ==
    [PlainBone(k) EXCEPT !.isIK = TRUE, !.target_index = target_index, !.ik_links = links,
                         !.loop_count = 40, !.additional_transform = additional_transform]

ChildBone(k, parent_index, tail_position, additional_transform) ==
    [PlainBone(k) EXCEPT !.position = <<One, Half, Quarter>>, !.parent_index = parent_index,
                         !.tail_position = tail_position,
                         !.additional_transform = additional_transform]

TransformSamples == {None, [parent |-> 0, influence |-> One]}

\* the bones of the model, the second an IK bone or a child, the third an IK
\* bone with an existing target
BoneSequences(n) ==
    {[k \in 1..n |-> IF k = 2 THEN b
                     ELSE IF k = 3 THEN IKBone(2, 0, <<>>, None) ELSE PlainBone(k - 1)] :
        b \in {IKBone(1, t, ls, a) :
                    t \in {-n - 1, -1, 0, n - 1, n},
                    ls \in LinkSamples, a \in TransformSamples}
               \cup {ChildBone(1, p, t, a) :
                    p \in {-2, -1, 0, 1, 2, n}, t \in {None, [xyz |-> <<Zero, One, Half>>], [xyz |-> Origin]},
                    a \in TransformSamples}}

BoneCalls ==
    {StageCall("_import_bones", StageObject(<<>>, bones), Handle("mesh")) :
        bones \in BoneSequences(StageBones)}

\* morphs: of vertices (type 1), of materials (type 8), of another kind
VertexMorph(k, indices) ==
    [name |-> <<"morph", k>>, type |-> 1,
     offsets |-> [j \in 1..Len(indices) |->
                    [index |-> indices[j], offset |-> <<Quarter, Half, One>>]]]

MaterialMorph(k, indices) ==
    [name |-> <<"morph", k>>, type |-> 8,
     offsets |-> [j \in 1..Len(indices) |-> [material_index |-> indices[j]]]]

OtherMorph(k, type) ==
    [name |-> <<"morph", k>>, type |-> type, offsets |-> <<[index |-> 0]>>]

MorphVertices == 2

MorphSamples(k) ==
    {VertexMorph(k, is) : is \in {<<>>, <<0>>, <<1, MorphVertices>>, <<-1>>,
                                  <<-MorphVertices - 1, 0>>}}
    \cup {MaterialMorph(k, is) : is \in {<<>>, <<-1>>, <<0>>, <<1>>, <<2, 0>>}}
    \cup {OtherMorph(k, t) : t \in {0, 2, 3, 9}}

MorphSequences ==
    {<<m>> : m \in MorphSamples(0)}
    \cup {<<m, VertexMorph(1, <<1>>)>> : m \in MorphSamples(0)}
    \cup {<<OtherMorph(0, 2), m>> : m \in MorphSamples(1)}

MorphObject(morphs) ==
    [StageObject([i \in 1..MorphVertices |-> StageVertex(<<0>>, <<One>>)], PlainBones)
        EXCEPT !.morphs = morphs]

\* _import_morphs on a mesh with or without shape keys, with one material or
\* none
MorphCalls ==
    {[StageCall("_import_morphs", MorphObject(ms), [Handle("mesh") EXCEPT !.shape_keys = sk])
        EXCEPT !.material_table = mt] :
        ms \in MorphSequences, sk \in BOOLEAN, mt \in {<<>>, <<Handle("material")>>}}

\* rigid body k (from 0) of a model
RigidBody(k, bone_index, physics_mode, shape_type) ==
    [name |-> <<"body", k>>, position |-> <<One, Half, Quarter>>,
     rotation |-> <<Zero, Quarter, Half>>, physics_mode |-> physics_mode,
     shape_type |-> shape_type, mass |-> One, friction |-> Half, restitution |-> Zero,
     bone_index |-> bone_index]

RigidSamples(k) ==
    {RigidBody(k, b, m, s) : b \in {-2, -1, 0, StageBones - 1, StageBones},
                             m \in {0, 1, 2}, s \in {0, 1, 2, 3}}

RigidSequences ==
    {<<r>> : r \in RigidSamples(0)}
    \cup {<<r, RigidBody(1, 1, 0, 1)>> : r \in RigidSamples(0)}

\* the pose bones _import_bones leaves in bone_table
PlainBoneTable == [k \in 1..StageBones |-> PlainBones[k].name]

\* _import_rigid_bodies after _import_bones
RigidCalls ==
    {[StageCall("_import_rigid_bodies",
                [StageObject(<<>>, PlainBones) EXCEPT !.rigid_bodies = rs], Handle("mesh"))
        EXCEPT !.bone_table = PlainBoneTable] : rs \in RigidSequences}

\* joint k (from 0) of a model, between rigid bodies a and b
Joint(k, a, b) ==
    [name |-> <<"joint", k>>, position |-> <<One, Half, Quarter>>,
     rotation |-> <<Zero, Quarter, Half>>, rigid_body_a |-> a, rigid_body_b |-> b,
     linear_lower_limit |-> <<Zero, Zero, Zero>>,
     linear_upper_limit |-> <<Quarter, Half, One>>,
     angular_lower_limit |-> <<Zero, Quarter, Half>>,
     angular_upper_limit |-> <<One, One, One>>]

StageRigids == 2

\* the rigid bodies _import_rigid_bodies leaves in rigid_table
RigidTable(n) == [k \in 0..(n - 1) |-> RigidObject(RigidBody(k, -1, 0, 0))]

JointSequences ==
    {<<Joint(0, a, b)>> : a, b \in {-1, 0, StageRigids - 1, StageRigids}}
    \cup {<<Joint(0, a, b), Joint(1, 0, StageRigids - 1)>> :
            a, b \in {-1, 0, StageRigids - 1, StageRigids}}

\* _import_joints after _import_rigid_bodies, on a model with or without
\* rigid bodies
JointCalls ==
    {[StageCall("_import_joints",
                [StageObject(<<>>, PlainBones) EXCEPT !.joints = js], Handle("mesh"))
        EXCEPT !.rigid_table = RigidTable(n)] : js \in JointSequences, n \in {0, StageRigids}}

StageCalls == VertexCalls \cup BoneCalls \cup MorphCalls \cup RigidCalls \cup JointCalls

\* the importer a stage call finds
Prepared(c) ==
    [NewImporter EXCEPT !.model = c.model, !.mesh_obj = c.mesh_obj,
                        !.armature_obj = Handle("armature"),
                        !.bone_table = c.bone_table,
                        !.material_table = c.material_table,
                        !.rigid_table = c.rigid_table]

StagesInit ==
    /\ gen \in StageCalls
    /\ cut = 0
    /\ file = <<>>
    /\ pc = "call"
    /\ dec = DecoderStart
    /\ importer = Prepared(gen)
    /\ progress = None
    /\ wm = [begun |-> 0, value |-> <<0, 1>>, ended |-> 0]
    /\ scene = EmptyScene
    /\ raised = NoErr
    /\ result = None
    /\ log = <<>>
    /\ calls = <<>>

\* The stage method ran and left the stage state st: it returned, or raised
\* st.err to its caller.
Ran(stage, st) ==
    /\ pc = "call"
    /\ gen.stage = stage
    /\ calls' = Append(calls, stage)
    /\ importer' = st.self
    /\ scene' = [scene EXCEPT !.ops = st.ops]
    /\ raised' = st.err
    /\ pc' = IF st.err = NoErr THEN "returned" ELSE "raised"
    /\ UNCHANGED <<gen, cut, file, dec, progress, wm, result, log>>

ImportVertices == Ran("_import_vertices", _import_vertices(importer))

ImportBones == Ran("_import_bones", _import_bones(importer))

ImportMorphs == Ran("_import_morphs", _import_morphs(importer))

ImportRigidBodies == Ran("_import_rigid_bodies", _import_rigid_bodies(importer))

ImportJoints == Ran("_import_joints", _import_joints(importer))

StagesNext ==
    \/ ImportVertices
    \/ ImportBones
    \/ ImportMorphs
    \/ ImportRigidBodies
    \/ ImportJoints

SpecStages == StagesInit /\ [][StagesNext]_vars

\* ------------------------------------------------------------------------
\* Properties
\* ------------------------------------------------------------------------
\* load_pmx_file has ended: it returned or an exception left it
DecoderEnded == dec.pc \in {"raised", "returned"}

Last(q) == q[Len(q)]

\* C1: importing the single-triangle document runs every stage, execute
\* returns FINISHED, and the scene then holds exactly 1 mesh, 1 bone, 1 vertex
\* group with weight 1.0 on all 3 vertices, and 1 material covering 1 triangle.
TriangleImported ==
    (gen = Triangle /\ pc = "done") =>
        /\ result = "FINISHED"
        /\ progress.current = progress.total
        /\ Len(scene.meshes) = 1
        /\ Len(scene.bones) = 1
        /\ Len(scene.vertex_groups) = 1
        /\ scene.vertex_groups[1] = [v \in 0..2 |-> One]
        /\ Len(scene.materials) = 1
        /\ scene.face_materials = <<0>>

\* C2: when the first 4 bytes of the stream are not 'PMX ', load_pmx_file
\* raises as soon as it has read them: no header or section field is read
\* (the cursor stays within the first 4 bytes, no section was begun), no
\* document is returned, and execute gets no model.
BadMagicRejected ==
    (Read(file, 0, 4) # PMXMagic /\ dec.pc # "magic") =>
        /\ dec.pc = "raised"
        /\ dec.err = Err("ValueError", "Not a valid PMX file", 0)
        /\ dec.pos = MinOf(4, Len(file))
        /\ dec.sections = <<>>
        /\ dec.header = None
        /\ dec.doc = None
        /\ importer.model = None

\* a file longer than its wrong signature was rejected and the import ended
BadMagicWitness ==
    /\ Len(file) > 4
    /\ Read(file, 0, 4) # PMXMagic
    /\ dec.pc = "raised"
    /\ pc = "done"

\* the version tags of the format: 2.0 and 2.1
RecognizedVersions == {F32(Float2), F32(Float2_1)}

\* the header h has an unrecognized version or an index width outside {1,2,4}
Malformed(h) ==
    \/ h.version \notin RecognizedVersions
    \/ \E w \in {h.vertex_index_size, h.texture_index_size, h.material_index_size,
                 h.bone_index_size, h.morph_index_size, h.rigid_body_index_size} :
            w \notin {1, 2, 4}

\* C3: a header with an unrecognized version tag or an index-width byte
\* outside {1,2,4} makes decoding fail before any section is decoded, and no
\* document is returned.
MalformedHeaderRejected ==
    (dec.header # None /\ Malformed(dec.header) /\ DecoderEnded) =>
        /\ dec.pc = "raised"
        /\ dec.sections = <<"header">>
        /\ dec.doc = None

\* C4: a file cut short of its full length fails to decode with a
\* truncation error raised by the read that ran out of bytes (no read comes
\* up short without raising), and no document is returned.
TruncationRejected ==
    (gen.truncate /\ cut >= 4 /\ cut < Len(PutFile(gen)) /\ DecoderEnded) =>
        /\ dec.pc = "raised"
        /\ dec.err.type \in {"struct.error", "IndexError"}
        /\ ~dec.short
        /\ dec.doc = None

\* The skin binding a vertex description v stands for.
ExpectedIndices(v) ==
    CASE v.tag = 0 -> SubSeq(v.bones, 1, 1)
      [] v.tag \in {1, 3} -> SubSeq(v.bones, 1, 2)
      [] OTHER -> v.bones

ExpectedWeights(v) ==
    CASE v.tag = 0 -> <<One>>
      [] v.tag \in {1, 3} -> <<F32(v.weights[1]), OneMinus(F32(v.weights[1]))>>
      [] OTHER -> [i \in 1..4 |-> F32(v.weights[i])]

\* the tag bytes of the four SkinBinding variants: Single, Dual, Quad and
\* SphericalDual
VariantTags == 0..3

\* the position of the first vertex of vs whose tag stands for no variant, or 0
FirstUnknownTag(vs) ==
    IF \A i \in 1..Len(vs) : vs[i].tag \in VariantTags THEN 0
    ELSE CHOOSE i \in 1..Len(vs) :
            /\ vs[i].tag \notin VariantTags
            /\ \A j \in 1..(i - 1) : vs[j].tag \in VariantTags

\* the vertex section of a whole file with all its declared vertices was read
VerticesRead ==
    /\ ~gen.truncate
    /\ gen.vcount = Len(gen.verts)
    /\ \E i \in 1..Len(dec.sections) : dec.sections[i] = "vertices"
    /\ dec.pc # "vertices"

\* C5: in every file, every vertex record's tag byte selects the variant it
\* stands for (the decoded bone indices and weights are those written in the
\* record: 1 index and weight 1.0, 2 indices and w, 1 - w, or 4 indices and
\* 4 weights), and the first tag that stands for none of the four variants,
\* at whatever vertex, ends decoding with the "Invalid weight type" error
\* carrying that tag byte; no document is returned.
WeightTypeDispatch ==
    VerticesRead =>
        IF FirstUnknownTag(gen.verts) = 0
        THEN /\ dec.vertices # None
             /\ Len(dec.vertices) = Len(gen.verts)
             /\ \A i \in 1..Len(gen.verts) :
                    /\ dec.vertices[i].bone_indices = ExpectedIndices(gen.verts[i])
                    /\ dec.vertices[i].bone_weights = ExpectedWeights(gen.verts[i])
        ELSE /\ dec.pc = "raised"
             /\ dec.err = Err("ValueError", "Invalid weight type",
                              gen.verts[FirstUnknownTag(gen.verts)].tag)
             /\ Last(dec.sections) = "vertices"
             /\ dec.vertices = None
             /\ dec.doc = None

\* the ceiling of a section's element count (16M)
CountCeiling == 16 * 1024 * 1024

\* the declared counts of a description, in section order
DeclaredCounts(d) == <<d.vcount, d.fcount, d.tcount, d.mcount, d.bcount>>

ImplausibleCount(c) == c < 0 \/ c > CountCeiling

\* the first section of d whose declared count is implausible, or 0
FirstImplausible(d) ==
    IF \A i \in 1..5 : ~ImplausibleCount(DeclaredCounts(d)[i]) THEN 0
    ELSE CHOOSE i \in 1..5 :
            /\ ImplausibleCount(DeclaredCounts(d)[i])
            /\ \A j \in 1..(i - 1) : ~ImplausibleCount(DeclaredCounts(d)[j])

\* the cursor after the count of section i of the file written from d
AfterCount(d, i) ==
    Len(PutHeader(d) \o PutNames(d))
    + (IF i >= 2 THEN Len(PutVertices(d)) ELSE 0)
    + (IF i >= 3 THEN Len(PutFaces(d)) ELSE 0)
    + (IF i >= 4 THEN Len(PutI32(d.tcount) \o PutAll(PutText, d.textures)) ELSE 0)
    + (IF i >= 5 THEN Len(PutI32(d.mcount) \o PutAll(PutMaterial, d.mats)) ELSE 0)
    + 4

\* C6: a section count that is negative or above the ceiling makes decoding
\* fail in that section, on reading the count (no record of the section is
\* read), and no document is returned.
ImplausibleCountRejected ==
    (gen.family = "counts" /\ FirstImplausible(gen) # 0 /\ DecoderEnded) =>
        /\ dec.pc = "raised"
        /\ Last(dec.sections) = SectionNames[FirstImplausible(gen)]
        /\ dec.pos = AfterCount(gen, FirstImplausible(gen))
        /\ dec.doc = None

\* C7: a document is returned only after the sections names, vertices,
\* faces, textures, materials, bones, morphs, rigid bodies, joints were decoded
\* in this order, and it holds every one of them.
AllSectionsDecoded ==
    dec.pc = "returned" =>
        /\ dec.sections = <<"header", "names", "vertices", "faces", "textures", "materials",
                            "bones", "morphs", "rigid_bodies", "joints">>
        /\ {"vertices", "faces", "textures", "materials", "bones", "morphs",
            "rigid_bodies", "joints"} \subseteq DOMAIN dec.doc

\* the encoding the format gives an encoding flag byte
FlagEncoding(flag) == IF flag = 0 THEN "utf-16-le" ELSE "utf-8"

\* the text the bytes bs of a description stand for under the header's flag
FlagText(bs) == Decode(bs, FlagEncoding(dec.header.encoding_flag))

\* C8: every text field (model names, texture paths, material and bone
\* names) is decoded as UTF-16LE when the encoding flag byte is 0 and as UTF-8
\* when it is not: decoding ends with these texts in the document, or with an
\* error when a text is not valid in that encoding.
EncodingFlagApplied ==
    (gen.family = "text" /\ DecoderEnded) =>
        IF \E i \in 1..4 : FlagText(gen.texts[i]) = <<-1>>
        THEN dec.pc = "raised"
        ELSE /\ dec.pc = "returned"
             /\ dec.doc.name = FlagText(gen.texts[1])
             /\ dec.doc.name_en = FlagText(gen.texts[2])
             /\ dec.doc.textures = <<FlagText(gen.textures[1])>>
             /\ dec.doc.materials[1].name = FlagText(gen.mats[1].name)
             /\ dec.doc.bones[1].name = FlagText(gen.bones[1].name)

\* nothing of the host was touched: no scene object, no stage call, no
\* progress step
HostUntouched ==
    /\ scene = EmptyScene
    /\ calls = <<>>
    /\ progress.current = 0
    /\ wm.begun = 0

\* C9: while load_pmx_file runs nothing of the host is touched, the first
\* stage that creates scene objects is called only after the decoder returned,
\* and when decoding fails the import ends CANCELLED with nothing created.
DecodingIsPure ==
    /\ pc = "load" => HostUntouched
    /\ calls # <<>> => dec.pc = "returned"
    /\ (dec.pc = "raised" /\ pc \in {"except", "exit", "done"}) => HostUntouched
    /\ (dec.pc = "raised" /\ pc = "done") => result = "CANCELLED"

\* the import of a file whose third vertex has an unknown weight type ended
DecodingFailedWitness ==
    /\ pc = "done"
    /\ dec.pc = "raised"
    /\ dec.err.what = "Invalid weight type"
    /\ dec.sections = <<"header", "names", "vertices">>
    /\ result = "CANCELLED"
    /\ scene = EmptyScene

RECURSIVE SumTriangles(_)
SumTriangles(ms) ==
    IF ms = <<>> THEN 0 ELSE Head(ms).vertex_count \div 3 + SumTriangles(Tail(ms))

\* the material of triangle t (from 1) when materials take their triangles
\* in document order
RECURSIVE MaterialOfTriangle(_, _, _)
MaterialOfTriangle(ms, k, t) ==
    IF t <= ms[k].vertex_count \div 3 THEN k - 1
    ELSE MaterialOfTriangle(ms, k + 1, t - ms[k].vertex_count \div 3)

\* C10: materials take face_vertex_count/3 triangles each, in document
\* order; when these counts add up to len(faces) the import succeeds with
\* that assignment, and when they do not, the import fails in the material
\* stage with MaterialFaceCountMismatch.
MaterialFaceCounts ==
    (gen.family = "materials" /\ dec.pc = "returned" /\ pc = "done") =>
        IF SumTriangles(dec.doc.materials) = Len(dec.doc.faces)
        THEN /\ result = "FINISHED"
             /\ scene.face_materials =
                    [t \in 1..Len(dec.doc.faces) |-> MaterialOfTriangle(dec.doc.materials, 1, t)]
        ELSE /\ result = "CANCELLED"
             /\ raised.type = "MaterialFaceCountMismatch"
             /\ Last(calls) = "_import_materials"

\* C11: in every document load_pmx_file returns, every vertex index of
\* every face is less than the number of vertices.
FaceIndicesInRange ==
    (gen.family = "faces" /\ dec.pc = "returned") =>
        \A i \in 1..Len(dec.doc.faces) : \A k \in 1..3 :
            dec.doc.faces[i][k] < Len(dec.doc.vertices)

\* the host was asked to assign weight to vertex i in the group of bone
\* (both from 0) in the given mode
Assigned(bone, i, weight, mode) ==
    \E j \in 1..Len(scene.ops) : scene.ops[j] = <<"vertex_group.add", bone, i, weight, mode>>

\* the host was asked for some assignment to vertex i in the group of bone
AssignedAny(bone, i) ==
    \E j \in 1..Len(scene.ops) :
        /\ scene.ops[j][1] = "vertex_group.add"
        /\ scene.ops[j][2] = bone
        /\ scene.ops[j][3] = i

\* the import of a decoded skin-family file has ended
SkinImported == gen.family = "skin" /\ dec.pc = "returned" /\ pc = "done"

\* C12: for every vertex with a Quad binding (4 bones) of an imported
\* document, the weight pass assigns, in mode ADD, exactly the slots whose
\* weight is greater than zero: bones [0,1,2,3] with weights [0.5,0.5,0,0]
\* gives assignments to groups 0 and 1 only.
QuadPositiveSlotsAssigned ==
    SkinImported =>
        \A i \in 1..Len(dec.doc.vertices) :
            Len(dec.doc.vertices[i].bone_indices) = 4 =>
                \A k \in 1..4 :
                    Positive(dec.doc.vertices[i].bone_weights[k])
                    <=> Assigned(dec.doc.vertices[i].bone_indices[k], i - 1,
                                 dec.doc.vertices[i].bone_weights[k], "ADD")

\* C13: for every vertex of an imported document, a Single binding assigns
\* weight 1.0 to the group of its bone in mode REPLACE, a Dual or
\* SphericalDual binding assigns weight_a to the group of bone_a and
\* 1 - weight_a to the group of bone_b, and no other group gets an assignment
\* for that vertex.
SingleDualAssigned ==
    SkinImported =>
        \A i \in 1..Len(dec.doc.vertices) :
            LET b == dec.doc.vertices[i].bone_indices
                w == dec.doc.vertices[i].bone_weights
            IN  /\ Len(b) = 1 =>
                    /\ Assigned(b[1], i - 1, One, "REPLACE")
                    /\ \A g \in 0..(Len(dec.doc.bones) - 1) : AssignedAny(g, i - 1) => g = b[1]
                /\ Len(b) = 2 =>
                    /\ Assigned(b[1], i - 1, w[1], "REPLACE")
                    /\ Assigned(b[2], i - 1, OneMinus(w[1]), "REPLACE")
                    /\ \A g \in 0..(Len(dec.doc.bones) - 1) :
                            AssignedAny(g, i - 1) => g \in {b[1], b[2]}

\* _import_vertices has ended on a model object and a mesh
VerticesStageEnded ==
    /\ gen.family = "stage"
    /\ gen.stage = "_import_vertices"
    /\ IsObject(gen.model)
    /\ gen.mesh_obj # None
    /\ pc \in {"returned", "raised"}

\* bone index b references none of the n bones
Dangling(b, n) == b < 0 \/ b >= n

\* the positions of the vertices some (every) bone index of which is dangling
SomeDangling ==
    {i \in 1..Len(gen.model.vertices) :
        \E k \in 1..Len(gen.model.vertices[i].weight.bones) :
            Dangling(gen.model.vertices[i].weight.bones[k], Len(gen.model.bones))}

AllDangling ==
    {i \in 1..Len(gen.model.vertices) :
        \A k \in 1..Len(gen.model.vertices[i].weight.bones) :
            Dangling(gen.model.vertices[i].weight.bones[k], Len(gen.model.bones))}

\* C14: when a bone index of a vertex's binding is negative (-1 included) or
\* not below the number of bones, the vertex stage fails, and a vertex all of
\* whose indices are dangling receives no weight in any vertex group.
DanglingSkinIndexRejected ==
    (VerticesStageEnded /\ SomeDangling # {}) =>
        /\ pc = "raised"
        /\ \A i \in AllDangling : \A g \in 0..(Len(gen.model.bones) - 1) : ~AssignedAny(g, i - 1)

\* a stage method has ended
StageEnded(stage) ==
    /\ gen.family = "stage"
    /\ gen.stage = stage
    /\ pc \in {"returned", "raised"}

\* the parents of all bones exist when their edit bones are made, so that
\* the mandatory part of _import_bones does not fail
ParentsExist == \A k \in 1..Len(gen.model.bones) : gen.model.bones[k].parent_index < k

\* the host was asked for an IK constraint on pose bone i (from 0)
IkConstraintMade(i) ==
    \E j \in 1..Len(scene.ops) :
        scene.ops[j][1] = "constraints.new" /\ scene.ops[j][2] = i

\* the IK bones (from 0) whose target is a bone of the model
SoundIkBones ==
    {i \in 0..(Len(gen.model.bones) - 1) :
        /\ gen.model.bones[i + 1].isIK
        /\ gen.model.bones[i + 1].target_index \in 0..(Len(gen.model.bones) - 1)}

\* C15: a failure on one element of the constraint, morph or physics passes
\* never aborts: the pass returns normally, and the elements without fault
\* (here the IK bones with an existing target) are still processed.
ElementFailureNeverAborts ==
    /\ (StageEnded("_import_bones") /\ ParentsExist) =>
            pc = "returned" /\ \A i \in SoundIkBones : IkConstraintMade(i)
    /\ StageEnded("_import_morphs") => pc = "returned"
    /\ StageEnded("_import_rigid_bodies") => pc = "returned"
    /\ StageEnded("_import_joints") => pc = "returned"

\* a warning or an error was recorded
Recorded == \E j \in 1..Len(log) : log[j][1] \in {"warning", "error"}

\* the joints (from 1) one side of which is no key of the rigid-body table
LooseJoints ==
    {k \in 1..Len(gen.model.joints) :
        \/ gen.model.joints[k].rigid_body_a \notin DOMAIN gen.rigid_table
        \/ gen.model.joints[k].rigid_body_b \notin DOMAIN gen.rigid_table}

\* the host object made for joint k, with its two sides
JointMade(k, object1, object2) ==
    \E j \in 1..Len(scene.ops) :
        /\ scene.ops[j][2] = <<"joint_", gen.model.joints[k].name>>
        /\ scene.ops[j][7] = object1
        /\ scene.ops[j][8] = object2

\* C16: a joint with a rigid-body index that is no key of the rigid-body table
\* still gets its joint object, with that side unconnected, a warning is
\* recorded, the pass does not abort and the other joints are processed.
LooseJointWarned ==
    (StageEnded("_import_joints") /\ LooseJoints # {}) =>
        /\ pc = "returned"
        /\ \A k \in 1..Len(gen.model.joints) :
                JointMade(k, Connected(gen.rigid_table, gen.model.joints[k].rigid_body_a),
                          Connected(gen.rigid_table, gen.model.joints[k].rigid_body_b))
        /\ Recorded

\* a failure has happened: the decoder raised, or execute caught an exception
Failed == dec.pc = "raised" \/ raised # NoErr

\* C17: once decoding or a stage has failed, no stage is started, no progress
\* checkpoint is emitted and the scene is left as it is; the handler returns
\* CANCELLED at once, and that is the result of the import.
FailureReturnsImmediately ==
    /\ [][Failed => /\ calls' = calls
                    /\ progress' = progress
                    /\ wm'.begun = wm.begun
                    /\ scene' = scene
                    /\ pc' \in {"except", "exit", "done"}
                    /\ (pc = "except" => result' = "CANCELLED")]_vars
    /\ []((Failed /\ pc = "done") => result = "CANCELLED")

\* the import of a file with an unknown weight type has ended: the decoder
\* raised in the vertices, and execute returned CANCELLED
FailureReturnedWitness ==
    /\ pc = "done"
    /\ dec.pc = "raised"
    /\ dec.err.what = "Invalid weight type"
    /\ raised = dec.err
    /\ result = "CANCELLED"
    /\ calls = <<>>
    /\ progress.current = 0

\* the elements a stage drops: IK bones with a negative target, morphs of a
\* kind other than vertex (1) and material (8), material-morph offsets with a
\* material index not below the number of materials, joints with an unknown
\* rigid body
NegativeIkTargets ==
    {k \in 1..Len(gen.model.bones) :
        gen.model.bones[k].isIK /\ gen.model.bones[k].target_index < 0}

OtherKinds == {k \in 1..Len(gen.model.morphs) : gen.model.morphs[k].type \notin {1, 8}}

DroppedMaterialOffsets ==
    {k \in 1..Len(gen.model.morphs) :
        /\ gen.model.morphs[k].type = 8
        /\ \E j \in 1..Len(gen.model.morphs[k].offsets) :
                gen.model.morphs[k].offsets[j].material_index >= Len(gen.material_table)}

\* C18: every dropped element is recorded: the stage raises an error, or a
\* warning is recorded.
EverySkipRecorded ==
    /\ (StageEnded("_import_bones") /\ NegativeIkTargets # {}) => (pc = "raised" \/ Recorded)
    /\ (StageEnded("_import_morphs") /\ OtherKinds # {}) => (pc = "raised" \/ Recorded)
    /\ (StageEnded("_import_morphs") /\ DroppedMaterialOffsets # {}) =>
            (pc = "raised" \/ Recorded)
    /\ (StageEnded("_import_joints") /\ LooseJoints # {}) => (pc = "raised" \/ Recorded)

\* the names of the checkpoints the progress tracker has logged
RECURSIVE Checkpoints(_)
Checkpoints(l) ==
    IF l = <<>> THEN <<>>
    ELSE IF Head(l)[1] = "debug" THEN <<Head(l)[2]>> \o Checkpoints(Tail(l))
    ELSE Checkpoints(Tail(l))

\* C19: the import of a file that decodes emits the checkpoints vertices,
\* materials, faces, bones, morphs, physics, finalize, in this order, each once.
CheckpointsInOrder ==
    (pc = "done" /\ dec.pc = "returned") =>
        Checkpoints(log) = <<"Importing vertices", "Importing materials", "Importing faces",
                             "Importing bones", "Importing morphs", "Importing physics",
                             "Finalizing">>

\* the host was asked for the shape key of morph k
ShapeKeyMade(k) ==
    \E j \in 1..Len(scene.ops) : scene.ops[j] = <<"shape_key_add", gen.model.morphs[k].name>>

\* C20: a morph of a kind other than vertex and material is recorded as
\* skipped and does not make the morph stage fail (only a vertex or material
\* morph can); the vertex morphs of the document still get their shape keys.
OtherMorphRecordedAsSkipped ==
    (StageEnded("_import_morphs") /\ OtherKinds # {}) =>
        /\ Recorded
        /\ pc = "raised" => \E k \in 1..Len(gen.model.morphs) : gen.model.morphs[k].type \in {1, 8}
        /\ \A k \in 1..Len(gen.model.morphs) : gen.model.morphs[k].type = 1 => ShapeKeyMade(k)

\* the bone (from 1) reached from bone k by m steps to the parent, 0 when the
\* walk leaves the bones
RECURSIVE Ancestor(_, _, _)
Ancestor(bones, k, m) ==
    IF k = 0 \/ m = 0 THEN k
    ELSE Ancestor(bones,
                  IF bones[k].parent_index \in 0..(Len(bones) - 1)
                  THEN bones[k].parent_index + 1 ELSE 0,
                  m - 1)

\* the bones that are their own ancestor
OwnAncestors(bones) ==
    {k \in 1..Len(bones) : \E m \in 1..Len(bones) : Ancestor(bones, k, m) = k}

\* the host was asked for an edit bone
SomeEditBone == \E j \in 1..Len(scene.ops) : scene.ops[j][1] = "edit_bones.new"

\* C21: a document in which a bone is its own ancestor (a bone that is its own
\* parent included) is rejected before the bone pass creates any bone.
BoneCycleRejected ==
    (StageEnded("_import_bones") /\ OwnAncestors(gen.model.bones) # {}) =>
        pc = "raised" /\ ~SomeEditBone

\* the import of a file of the IK family has ended
IkImported == gen.family = "ik" /\ pc = "done"

\* the host was asked for an IK constraint on pose bone i (from 0) that
\* names the bone the file gives as its target
IkResolved(i) ==
    \E j \in 1..Len(scene.ops) :
        /\ scene.ops[j][1] = "constraints.new"
        /\ scene.ops[j][2] = i
        /\ scene.ops[j][5] = FlagText(gen.bones[gen.bones[i + 1].target + 1].name)

\* the host was asked to limit the angles of the pose bone at index link
LinkResolved(link) ==
    \E j \in 1..Len(scene.ops) :
        scene.ops[j][1] = "ik_limit" /\ scene.ops[j][2] = link

\* C22: after the import of a file the bone table holds every bone of the
\* file, and every IK bone whose target or links are bones declared later in
\* the file has a constraint naming the target bone, and angle limits on the
\* bones of its links.
IkTargetsResolved ==
    IkImported =>
        /\ Len(importer.bone_table) = Len(gen.bones)
        /\ \A i \in 0..(Len(gen.bones) - 1) :
                gen.bones[i + 1].isIK =>
                    /\ IkResolved(i)
                    /\ \A k \in 1..Len(gen.bones[i + 1].links) :
                            LinkResolved(gen.bones[i + 1].links[k])

\* the host was asked for the edit bone of bone k (from 1) with the bone at
\* its parent index as parent
ParentAttached(k) ==
    \E j \in 1..Len(scene.ops) :
        /\ scene.ops[j][1] = "edit_bones.new"
        /\ scene.ops[j][2] = gen.model.bones[k].name
        /\ Len(scene.ops[j]) = 6
        /\ scene.ops[j][6] = gen.model.bones[k].parent_index

\* C23: after the bone pass every bone whose parent index is the index of a
\* bone is attached to it, whether the parent is declared before or after it.
ParentsAttachedInAnyOrder ==
    StageEnded("_import_bones") =>
        \A k \in 1..Len(gen.model.bones) :
            gen.model.bones[k].parent_index \in 0..(Len(gen.model.bones) - 1) =>
                ParentAttached(k)

\* the offset of the tail from the head that the host was given for the edit
\* bone is at least 0.001 long: the constant (0, 0.1, 0), or coordinates n/256
\* that are not all 0
LongEnough(offset) == Len(offset) = 4 \/ \E i \in 1..3 : offset[i][2] # 0

\* C24: after the bone pass no bone is shorter than the minimum length,
\* whatever its tail specification.
NoShortBone ==
    StageEnded("_import_bones") =>
        \A j \in 1..Len(scene.ops) :
            scene.ops[j][1] = "edit_bones.new" => LongEnough(scene.ops[j][4])

\* the decoding of a width-family file has ended
WidthsDecoded == gen.family = "widths" /\ DecoderEnded

\* C25: every index is decoded with the width the header declares for its
\* kind: a file written with these widths decodes to the face indices, the
\* skin-binding bone indices, the bone parents and the material texture indices
\* that were written.
IndexWidthsApplied ==
    WidthsDecoded =>
        /\ dec.pc = "returned"
        /\ dec.faces = gen.faces
        /\ \A i \in 1..Len(gen.verts) :
                dec.vertices[i].bone_indices = ExpectedIndices(gen.verts[i])
        /\ \A i \in 1..Len(gen.bones) : dec.bones[i].parent_index = gen.bones[i].parent
        /\ \A i \in 1..Len(gen.mats) : dec.materials[i].texture_index = gen.mats[i].tex

\* C26: execute never propagates an exception of the decoder or of a stage:
\* an exception raised is on its way to the handler or was handled, what
\* execute returns is FINISHED or CANCELLED, CANCELLED whenever something
\* failed, and FINISHED only after every stage through _finalize_import was
\* called and none failed.
ExecuteNeverPropagates ==
    /\ raised # NoErr => pc \in {"except", "exit", "done"}
    /\ pc = "done" => result \in {"FINISHED", "CANCELLED"}
    /\ (Failed /\ pc = "done") => result = "CANCELLED"
    /\ (pc \in {"exit", "done"} /\ result = "FINISHED") =>
            /\ ~Failed
            /\ \E i \in 1..Len(calls) : calls[i] = "_finalize_import"

\* execute has returned CANCELLED after the call of a stage method raised
StageFailureCaughtWitness ==
    /\ pc = "done"
    /\ dec.pc = "returned"
    /\ raised.type = "AttributeError"
    /\ Last(calls) = "_create_base_objects"
    /\ result = "CANCELLED"

\* C27: during execute the step counter of the ProgressTracker is at most its
\* total of 8, the progress reported to the window manager is at most 100, and
\* when execute has returned the counter is 8 exactly if it returned FINISHED.
ProgressWithinTotal ==
    pc # "start" =>
        /\ progress.total = 8
        /\ progress.current <= progress.total
        /\ wm.value[1] <= 100 * wm.value[2]
        /\ pc = "done" => (progress.current = 8 <=> result = "FINISHED")

\* execute has returned after one progress step: 1 of 8, reported as 100 / 8
ProgressStepWitness ==
    /\ pc = "done"
    /\ progress.current = 1
    /\ wm.value = <<100, 8>>
    /\ wm.begun = 1
    /\ wm.ended = 1

\* the weight (n/256) vertex i holds in group g after the first n host
\* operations: REPLACE sets it, ADD adds to it
RECURSIVE Held(_, _, _)
Held(g, i, n) ==
    IF n = 0 THEN 0
    ELSE IF scene.ops[n][1] = "vertex_group.add" /\ scene.ops[n][2] = g /\ scene.ops[n][3] = i
    THEN IF scene.ops[n][5] = "REPLACE" THEN scene.ops[n][4][2]
         ELSE Held(g, i, n - 1) + scene.ops[n][4][2]
    ELSE Held(g, i, n - 1)

\* the sum over the groups 0 .. g of the weights vertex i holds
RECURSIVE HeldUpTo(_, _)
HeldUpTo(g, i) ==
    IF g < 0 THEN 0 ELSE Held(g, i, Len(scene.ops)) + HeldUpTo(g - 1, i)

\* C28: after the weight pass the weights a vertex with a binding of one or
\* two bones holds over all vertex groups sum to 1, for every choice of the
\* bone indices, equal ones included.
SingleDualWeightsSumToOne ==
    (VerticesStageEnded /\ pc = "returned") =>
        \A i \in 1..Len(gen.model.vertices) :
            Len(gen.model.vertices[i].weight.bones) \in {1, 2} =>
                HeldUpTo(Len(gen.model.bones) - 1, i - 1) = One[2]

\* ------------------------------------------------------------------------
\* import_multi_files and the import operators (core/importers/importer.py,
\* functions/import_anything.py)
\* ------------------------------------------------------------------------
\* A file name is the sequence of its path components; a path is the pair of
\* a directory and a base name, or the base name alone in the working
\* directory.  Under SpecImporter the variable file is the disk: the kind of
\* what lies at each path.
MaxFiles == 2

\* os.path.basename
Basename(name) == IF name = <<>> THEN "" ELSE name[Len(name)]

\* os.path.join(directory, base)
Join(directory, base) == IF directory = "" THEN <<base>> ELSE <<directory, base>>

\* what os.path.exists and os.path.isfile see at filepath
Kind(filepath) == IF filepath \in DOMAIN file THEN file[filepath] ELSE "missing"

\* ImportProgress.__init__
ImportProgress(total_files) == [total |-> total_files, current |-> 0]

\* ImportProgress.update: the tracker after it and the record it logs
update(self, filename) ==
    [self |-> [self EXCEPT !.current = @ + 1],
     log  |-> <<"info", "Importing", filename, self.current + 1, self.total>>]

\* validate_file: what it returns and the records it logs
validate_file(filepath) ==
    IF Kind(filepath) = "missing"
    THEN [valid |-> FALSE, log |-> << <<"error", "File not found", filepath>> >>]
    ELSE IF Kind(filepath) # "file"
    THEN [valid |-> FALSE, log |-> << <<"error", "Not a file", filepath>> >>]
    ELSE [valid |-> TRUE, log |-> <<>>]

\* the fullpath import_multi_files builds for the file the loop is at
Fullpath == Join(gen.directory, Basename(gen.files[cut].name))

\* "if not method: raise ValueError", then the choice of the branch; the
\* multi-file branch makes its ImportProgress and enters the loop.
MultiStart ==
    /\ pc = "call"
    /\ gen.op = "import_multi_files"
    /\ IF ~gen.method
       THEN /\ raised' = Err("ValueError", "Import method not specified", 0)
            /\ pc' = "except"
            /\ UNCHANGED <<cut, progress>>
       ELSE IF gen.files = <<>>
       THEN /\ pc' = "single"
            /\ UNCHANGED <<cut, progress, raised>>
       ELSE /\ progress' = ImportProgress(Len(gen.files))
            /\ cut' = 1
            /\ pc' = "loop"
            /\ UNCHANGED raised
    /\ UNCHANGED <<gen, file, dec, importer, wm, scene, result, log, calls>>

\* the branch of an empty file list: filepath is validated, imported and
\* passed to the callback
MultiSingle ==
    /\ pc = "single"
    /\ LET v == validate_file(gen.filepath) IN
       IF ~v.valid
       THEN /\ log' = log \o v.log
            /\ pc' = "returned"
            /\ UNCHANGED <<calls, raised>>
       ELSE IF gen.filepath \in gen.fails
       THEN /\ calls' = Append(calls, <<"method", gen.filepath>>)
            /\ raised' = Err("RuntimeError", "method", 0)
            /\ pc' = "except"
            /\ UNCHANGED log
       ELSE /\ calls' = calls \o << <<"method", gen.filepath>> >> \o
                        (IF gen.callback THEN << <<"callback", gen.filepath>> >> ELSE <<>>)
            /\ pc' = "returned"
            /\ UNCHANGED <<log, raised>>
    /\ UNCHANGED <<gen, cut, file, dec, importer, progress, wm, scene, result>>

\* the head of the loop written with "break" for "continue": a file that
\* fails validation ends the loop
MultiValidateBreak ==
    /\ pc = "loop"
    /\ cut <= Len(gen.files)
    /\ LET v == validate_file(Fullpath) IN
       IF ~v.valid
       THEN /\ log' = log \o v.log
            /\ pc' = "returned"
            /\ UNCHANGED cut
       ELSE /\ log' = Append(log, <<"info", "Importing file", Fullpath>>)
            /\ pc' = "import"
            /\ UNCHANGED cut
    /\ UNCHANGED <<gen, file, dec, importer, progress, wm, scene, raised, result, calls>>

\* the head of the loop: the next file's fullpath is validated; a file that
\* fails validation is skipped ("continue"), a valid one is announced
MultiValidate ==
    /\ pc = "loop"
    /\ cut <= Len(gen.files)
    /\ LET v == validate_file(Fullpath) IN
       IF ~v.valid
       THEN /\ log' = log \o v.log
            /\ cut' = cut + 1
            /\ pc' = "loop"
       ELSE /\ log' = Append(log, <<"info", "Importing file", Fullpath>>)
            /\ pc' = "import"
            /\ UNCHANGED cut
    /\ UNCHANGED <<gen, file, dec, importer, progress, wm, scene, raised, result, calls>>

\* method(directory, fullpath): it returns, or raises into the handler
MultiImport ==
    /\ pc = "import"
    /\ calls' = Append(calls, <<"method", Fullpath>>)
    /\ IF Fullpath \in gen.fails
       THEN /\ raised' = Err("RuntimeError", "method", 0)
            /\ pc' = "except"
       ELSE /\ pc' = "imported"
            /\ UNCHANGED raised
    /\ UNCHANGED <<gen, cut, file, dec, importer, progress, wm, scene, result, log>>

\* after the import returned: the progress callback, if one was given, then
\* progress.update(file["name"]), and on to the next file
MultiCallback ==
    /\ pc = "imported"
    /\ calls' = IF gen.callback THEN Append(calls, <<"callback", Fullpath>>) ELSE calls
    /\ LET u == update(progress, gen.files[cut].name) IN
        /\ progress' = u.self
        /\ log' = Append(log, u.log)
    /\ cut' = cut + 1
    /\ pc' = "loop"
    /\ UNCHANGED <<gen, file, dec, importer, wm, scene, raised, result>>

\* the loop ran out of files: import_multi_files returns None
MultiReturn ==
    /\ pc = "loop"
    /\ cut > Len(gen.files)
    /\ pc' = "returned"
    /\ UNCHANGED <<gen, cut, file, dec, importer, progress, wm, scene, raised, result, log, calls>>

\* "except Exception as e": the failure is logged and raised again
MultiExcept ==
    /\ pc = "except"
    /\ log' = Append(log, <<"error", "Import failed", raised>>)
    /\ pc' = "raised"
    /\ UNCHANGED <<gen, cut, file, dec, importer, progress, wm, scene, raised, result, calls>>

\* the inputs of import_multi_files: file names, a directory, what lies on
\* the disk, whether a method and a callback were given, and the paths on
\* which the method raises
FileNames == {<<"a.dae">>, <<"sub", "a.dae">>, <<"b.dae">>}

DiskPaths == {<<"models", "a.dae">>, <<"models", "b.dae">>}

RECURSIVE FileLists(_)
FileLists(n) ==
    IF n = 0 THEN {<<>>}
    ELSE FileLists(n - 1) \cup
         {Append(l, [name |-> f]) : l \in {q \in FileLists(n - 1) : Len(q) = n - 1}, f \in FileNames}

MultiCalls ==
    {[op |-> "import_multi_files", method |-> m, directory |-> "models", files |-> l,
      filepath |-> <<"models", "a.dae">>, callback |-> c, fails |-> x, disk |-> d] :
        m \in BOOLEAN, l \in FileLists(MaxFiles), c \in BOOLEAN,
        x \in {{}, {<<"models", "a.dae">>}, {<<"models", "b.dae">>}},
        d \in [DiskPaths -> {"file", "dir", "missing"}]}

\* ------------------------------------------------------------------------
\* import_multi_files of core/importer.py, the one the dae and vmd importers
\* of that module's import_types call: no check of the method, no
\* validation, no progress, no handler.
\* ------------------------------------------------------------------------
\* "for file in files: method(directory, fullpath)" from the k-th file on:
\* the calls made and the exception that ended them
RECURSIVE RunMethod(_, _, _)
RunMethod(st, paths, k) ==
    IF k > Len(paths) THEN st
    ELSE IF ~gen.method
    THEN [st EXCEPT !.err = Err("TypeError", "'NoneType' object is not callable", 0)]
    ELSE IF paths[k] \in gen.fails
    THEN [st EXCEPT !.calls = Append(@, <<"method", paths[k]>>),
                    !.err = Err("RuntimeError", "method", 0)]
    ELSE RunMethod([st EXCEPT !.calls = Append(@, <<"method", paths[k]>>)], paths, k + 1)

\* import_multi_files(method, directory, files, filepath) of core/importer.py
import_multi_files ==
    /\ pc = "call"
    /\ gen.op = "core.importer.import_multi_files"
    /\ LET paths == IF gen.files = <<>> THEN <<gen.filepath>>
                    ELSE [i \in 1..Len(gen.files) |->
                            Join(gen.directory, Basename(gen.files[i].name))]
           st == RunMethod([calls |-> calls, err |-> NoErr], paths, 1)
       IN  /\ calls' = st.calls
           /\ raised' = st.err
           /\ pc' = IF st.err = NoErr THEN "returned" ELSE "raised"
    /\ UNCHANGED <<gen, cut, file, dec, importer, progress, wm, scene, result, log>>

CoreMultiCalls ==
    {[op |-> "core.importer.import_multi_files", method |-> m, directory |-> "models",
      files |-> l, filepath |-> <<"models", "a.dae">>, callback |-> FALSE, fails |-> x,
      disk |-> d] :
        m \in BOOLEAN, l \in FileLists(MaxFiles),
        x \in {{}, {<<"models", "a.dae">>}, {<<"models", "b.dae">>}},
        d \in {[p \in DiskPaths |-> "file"], [p \in DiskPaths |-> "missing"]}}

\* ------------------------------------------------------------------------
\* The import operators.  A selected file's name is the sequence of the parts
\* its base name has between dots; the host scene's ops record, in order,
\* what an operator did: the default objects cleared, each importer invoked
\* (with the group's name, its files and the importer's outcome), each
\* call an importer made of the host's per-file import method, each report
\* and popup.
\* ------------------------------------------------------------------------
\* the key ImportAnyModel.execute groups an extension under: the first key of
\* import_types whose lambda has the same bytecode (co_code) as the
\* extension's own; an extension that is no key keeps its name
Canonical(name) ==
    CASE name \in {"dmx", "qc"} -> "smd"
      [] name = "glb" -> "gltf"
      [] name \in {"3ds", "stl", "mtl", "x3d", "wrl"} -> "obj"
      [] name = "vmd" -> "dae"
      [] name = "pmd" -> "pmx"
      [] OTHER -> name

\* pathlib's suffix of a base name, its dot removed: the part after the last
\* dot; "" when the name has no dot, ends with its last dot, or starts with
\* its only dot
Suffix(fname) ==
    IF Len(fname) < 2 \/ fname[Len(fname)] = "" \/ (Len(fname) = 2 /\ fname[1] = "")
    THEN ""
    ELSE fname[Len(fname)]

\* file_grouping_dict after the first k selected files: the groups in the
\* order their extensions first appeared, each with its files in order.
RECURSIVE GroupFiles(_, _, _)
GroupFiles(op, files, k) ==
    IF k = 0 THEN <<>>
    ELSE LET groups == GroupFiles(op, files, k - 1)
             fname == files[k].name
             ext == Suffix(fname)
             name == IF op = "AvatarToolKit_OT_ImportAnyModel" THEN Canonical(ext) ELSE ext
             entry == [name |-> fname]
         IN  IF \E i \in 1..Len(groups) : groups[i].name = name
             THEN LET i == CHOOSE i \in 1..Len(groups) : groups[i].name = name
                  IN  [groups EXCEPT ![i].files = Append(@, entry)]
             ELSE Append(groups, [name |-> name, files |-> <<entry>>])

\* what a call of an importer did: how it ended (what it returned, or the
\* exception it raised), the records it logged, the per-file calls it made
\* of the host's import method, and how often it ended the window manager's
\* progress indicator
Outcome(outcome) == [outcome |-> outcome, log |-> <<>>, ops |-> <<>>, ended |-> 0]

\* the loop of import_multi_files (core/importers/importer.py) as the dae and
\* vmd importers run it, from the k-th file on: a method that returns, no
\* callback.  The operators pass base names, whose basename is the name.
RECURSIVE ImportEach(_, _, _, _)
ImportEach(r, track, files, k) ==
    IF k > Len(files) THEN r
    ELSE LET fullpath == Join(gen.directory, files[k].name)
             v == validate_file(fullpath)
             u == update(track, files[k].name)
         IN  IF ~v.valid
             THEN ImportEach([r EXCEPT !.log = @ \o v.log], track, files, k + 1)
             ELSE ImportEach(
                    [r EXCEPT !.log = @ \o << <<"info", "Importing file", fullpath>>, u.log >>,
                              !.ops = Append(@, <<"method", fullpath>>)],
                    u.self, files, k + 1)

\* the loop of import_multi_files (core/importer.py) as the dae importer of
\* that module runs it, from the k-th file on
RECURSIVE MethodEach(_, _, _)
MethodEach(r, files, k) ==
    IF k > Len(files) THEN r
    ELSE MethodEach([r EXCEPT !.ops = Append(@, <<"method", Join(gen.directory, files[k].name)>>)],
                    files, k + 1)

\* import_types[name](directory, files, filepath): "KeyError" when name is
\* no key of the operator's table, else what the importer did.  The smd
\* importers evaluate text that names SmdImporter (NameError without the
\* valve source tools) and is no expression (SyntaxError with them); obj and
\* mtl call the host's obj importer; dae and vmd run import_multi_files; the
\* pmx importer runs PMXImporter.execute on filepath, a file the disk of the
\* operators' runs does not hold: it logs the failure to open it, ends the
\* progress indicator and returns CANCELLED.  The host's importers end as
\* the call says they do.
import_types(name, files) ==
    IF name \notin {"fbx", "smd", "dmx", "gltf", "glb", "qc", "obj", "dae", "3ds", "stl",
                    "mtl", "x3d", "wrl", "vmd", "vrm", "pmx", "pmd"}
                   \cup (IF gen.op = "AvatarToolKit_OT_Import" THEN {"animx"} ELSE {})
    THEN Outcome("KeyError")
    ELSE CASE name = "fbx" -> Outcome(gen.fbx)
           [] name \in {"obj", "mtl"} -> Outcome(gen.obj)
           [] name = "vrm" -> Outcome(IF gen.vrm THEN "FINISHED" ELSE "AttributeError")
           [] name \in {"smd", "dmx", "qc"} ->
                Outcome(IF gen.valvesource THEN "SyntaxError" ELSE "NameError")
           [] name \in {"dae", "vmd"} ->
                IF gen.op = "AvatarToolKit_OT_Import"
                THEN ImportEach(Outcome("None"), ImportProgress(Len(files)), files, 1)
                ELSE MethodEach(Outcome("None"), files, 1)
           [] name = "pmx" ->
                [outcome |-> "CANCELLED",
                 log |-> << <<"info", "Starting Importing PMX">>,
                            <<"error", "Failed to load PMX file">>,
                            <<"error", "PMX import failed">>,
                            <<"info", "Completed Importing PMX">> >>,
                 ops |-> <<>>, ended |-> 1]
           [] OTHER -> Outcome("FINISHED")

\* the operator's state st after the importer of the group name was called
\* and did r
Called(st, name, files, r) ==
    [st EXCEPT !.ops = Append(@, <<"import", name, files, r.outcome>>) \o r.ops,
               !.log = @ \o r.log,
               !.ended = @ + r.ended]

\* the loop of AvatarToolKit_OT_Import.execute over the groups from the k-th
\* on, and what follows it
RECURSIVE ImportLoop(_, _, _)
ImportLoop(st, groups, k) ==
    IF k > Len(groups)
    THEN [st EXCEPT !.ops = Append(@, <<"report", "INFO", "Quick_Access.import_success">>),
                    !.result = "FINISHED", !.pc = "done"]
    ELSE LET name == groups[k].name
             r == import_types(name, groups[k].files)
             called == Called(st, name, groups[k].files, r)
         IN  IF name = "vrm" /\ ~gen.vrm
             THEN [st EXCEPT !.ops = Append(@, <<"vrm_importer_popup">>),
                             !.result = "CANCELLED", !.pc = "done"]
             ELSE IF r.outcome = "KeyError"
             THEN [st EXCEPT !.err = Err("KeyError", name, 0), !.pc = "raised"]
             ELSE IF r.outcome = "AttributeError"
             THEN [called EXCEPT
                     !.ops = Append(@, IF name = "vrm" THEN <<"vrm_importer_popup">>
                                       ELSE <<"report", "ERROR", "Importing.need_importer", name>>),
                     !.log = Append(@, <<"error", "Importer error">>),
                     !.result = "CANCELLED", !.pc = "done"]
             ELSE IF r.outcome \in {"RuntimeError", "NameError", "SyntaxError"}
             THEN [called EXCEPT !.err = Err(r.outcome, name, 0), !.pc = "raised"]
             ELSE ImportLoop(called, groups, k + 1)

\* the loop of AvatarToolKit_OT_ImportAnyModel.execute over the groups from
\* the k-th on, and what follows it
RECURSIVE ImportAnyLoop(_, _, _)
ImportAnyLoop(st, groups, k) ==
    IF k > Len(groups)
    THEN [st EXCEPT !.ops = Append(@, <<"report", "INFO", "Quick_Access.import_success">>),
                    !.result = "FINISHED", !.pc = "done"]
    ELSE LET name == groups[k].name
             r == import_types(name, groups[k].files)
             called == Called(st, name, groups[k].files, r)
         IN  IF r.outcome = "KeyError"
             THEN [st EXCEPT !.err = Err("KeyError", name, 0), !.pc = "raised"]
             ELSE IF r.outcome = "AttributeError"
             THEN ImportAnyLoop(
                     [called EXCEPT !.ops = @ \o
                         << <<"open_web_after_delay_multi_threaded", name>>,
                            <<"report", "ERROR", "Importing.need_importer", name>> >>],
                     groups, k + 1)
             ELSE IF r.outcome \in {"RuntimeError", "NameError", "SyntaxError"}
             THEN [called EXCEPT !.err = Err(r.outcome, name, 0), !.pc = "raised"]
             ELSE ImportAnyLoop(called, groups, k + 1)

\* an operator's execute ran and left st: it returned st.result, or raised
\* st.err to the host
Executed(st) ==
    /\ scene' = [scene EXCEPT !.ops = st.ops]
    /\ log' = st.log
    /\ wm' = [wm EXCEPT !.ended = @ + st.ended]
    /\ result' = st.result
    /\ raised' = st.err
    /\ pc' = st.pc
    /\ UNCHANGED <<gen, cut, file, dec, importer, progress, calls>>

\* AvatarToolKit_OT_Import.execute: the default objects are cleared, the
\* selected files (the single filepath when none is selected) are grouped by
\* extension and each group's importer is called
AvatarToolKit_OT_Import ==
    /\ pc = "call"
    /\ gen.op = "AvatarToolKit_OT_Import"
    /\ LET files == IF Len(gen.files) > 0 THEN gen.files ELSE <<[name |-> gen.filepath]>>
       IN  Executed(ImportLoop(
                [ops |-> Append(scene.ops, <<"clear_default_objects">>), log |-> log,
                 ended |-> 0, result |-> None, err |-> NoErr, pc |-> "call"],
                GroupFiles(gen.op, files, Len(files)), 1))

\* AvatarToolKit_OT_ImportAnyModel.execute: the default objects are removed,
\* the selected files (iterating self.files never fails, so is_multi is
\* always True) are grouped by importer and each group's importer is called
AvatarToolKit_OT_ImportAnyModel ==
    /\ pc = "call"
    /\ gen.op = "AvatarToolKit_OT_ImportAnyModel"
    /\ Executed(ImportAnyLoop(
            [ops |-> Append(scene.ops, <<"remove_default_objects">>), log |-> log,
             ended |-> 0, result |-> None, err |-> NoErr, pc |-> "call"],
            GroupFiles(gen.op, gen.files, Len(gen.files)), 1))

\* the inputs of the operators: the selected files, whether the vrm importer
\* and the valve source tools are installed, how the host's fbx and obj
\* importers end, and whether the selected dae file lies on the disk.  An
\* input of the host is varied when a selected file makes it matter.  The
\* pmx importer core/importer.py names is not part of the sources, so
\* ImportAnyModel is run on the other files.
SelectedNames ==
    {<<"a", "fbx">>, <<"b", "obj">>, <<"c", "stl">>, <<"d", "vrm">>, <<"e", "pmx">>,
     <<"f", "zip">>, <<"", "pmx">>, <<"x", "dae">>, <<"h", "smd">>, <<"m", "mtl">>}

RECURSIVE Selections(_)
Selections(n) ==
    IF n = 0 THEN {<<>>}
    ELSE Selections(n - 1) \cup
         {Append(l, [name |-> f]) : l \in {q \in Selections(n - 1) : Len(q) = n - 1},
                                    f \in SelectedNames}

Selects(l, exts) == \E i \in 1..Len(l) : Suffix(l[i].name) \in exts

OperatorCalls ==
    UNION {
        IF o = "AvatarToolKit_OT_ImportAnyModel" /\ Selects(l, {"pmx"}) THEN {} ELSE
        {[op |-> o, directory |-> "models", files |-> l, filepath |-> <<"e", "pmx">>,
          vrm |-> v, fbx |-> x, obj |-> y, valvesource |-> s, disk |-> d] :
            v \in IF Selects(l, {"vrm"}) THEN BOOLEAN ELSE {TRUE},
            x \in IF Selects(l, {"fbx"})
                  THEN {"FINISHED", "CANCELLED", "AttributeError", "RuntimeError"}
                  ELSE {"FINISHED"},
            y \in IF Selects(l, {"obj", "mtl", "stl"}) THEN {"FINISHED", "AttributeError"}
                  ELSE {"FINISHED"},
            s \in IF Selects(l, {"smd"}) THEN BOOLEAN ELSE {FALSE},
            d \in IF Selects(l, {"dae"})
                  THEN {<<>>, [p \in {<<"models", <<"x", "dae">>>>} |-> "file"]}
                  ELSE {<<>>}} :
        o \in {"AvatarToolKit_OT_Import", "AvatarToolKit_OT_ImportAnyModel"},
        l \in Selections(MaxFiles)}

ImporterInit ==
    /\ gen \in MultiCalls \cup CoreMultiCalls \cup OperatorCalls
    /\ cut = 0
    /\ file = gen.disk
    /\ pc = "call"
    /\ dec = DecoderStart
    /\ importer = NewImporter
    /\ progress = None
    /\ wm = [begun |-> 0, value |-> <<0, 1>>, ended |-> 0]
    /\ scene = EmptyScene
    /\ raised = NoErr
    /\ result = None
    /\ log = <<>>
    /\ calls = <<>>

ImporterNext ==
    \/ MultiStart
    \/ MultiSingle
    \/ MultiValidate
    \/ MultiImport
    \/ MultiCallback
    \/ MultiReturn
    \/ MultiExcept
    \/ import_multi_files
    \/ AvatarToolKit_OT_Import
    \/ AvatarToolKit_OT_ImportAnyModel

SpecImporter == ImporterInit /\ [][ImporterNext]_vars

\* the paths of the listed files, in list order
ListedPaths ==
    [i \in 1..Len(gen.files) |-> Join(gen.directory, Basename(gen.files[i].name))]

\* the listed paths at which a file lies, in list order
ExistingListed == SelectSeq(ListedPaths, LAMBDA p : Kind(p) = "file")

\* the paths the import method was invoked with, in the order of the calls
MethodCalls ==
    LET m == SelectSeq(calls, LAMBDA c : c[1] = "method")
    IN  [i \in 1..Len(m) |-> m[i][2]]

IsPrefix(a, b) == Len(a) <= Len(b) /\ SubSeq(b, 1, Len(a)) = a

\* the existing listed files up to and with the first one on which the
\* import method raises; all of them when it raises on none
RECURSIVE UntilRaise(_, _)
UntilRaise(paths, k) ==
    IF k > Len(paths) THEN paths
    ELSE IF paths[k] \in gen.fails THEN SubSeq(paths, 1, k)
    ELSE UntilRaise(paths, k + 1)

ImportedUntilRaise == UntilRaise(ExistingListed, 1)

MultiCallEnded == pc \in {"returned", "raised"}

\* the progress callback is invoked for a file only right after the method
\* returned for that file
CallbackAfterImport ==
    \A i \in 1..Len(calls) :
        calls[i][1] = "callback" =>
            /\ i > 1
            /\ calls[i - 1] = <<"method", calls[i][2]>>
            /\ calls[i][2] \notin gen.fails

Requested ==
    IF gen.op = "AvatarToolKit_OT_Import" /\ gen.files = <<>>
    THEN <<[name |-> gen.filepath]>>
    ELSE gen.files

\* the j-th thing the operator did was the report of import success
SuccessReport(j) == scene.ops[j][1] = "report" /\ scene.ops[j][2] = "INFO"

\* the i-th thing the operator did was a call of an importer that failed: it
\* raised, or returned CANCELLED
FailedImport(i) ==
    /\ scene.ops[i][1] = "import"
    /\ scene.ops[i][4] \in {"CANCELLED", "AttributeError", "RuntimeError", "NameError",
                           "SyntaxError"}

\* C30: an import operator reports import success, and returns FINISHED,
\* only if an importer was invoked for every requested file and no
\* importer failed before the report; FINISHED is returned only after the
\* success report.
SuccessOnlyAfterAllImported ==
    gen.op \in {"AvatarToolKit_OT_Import", "AvatarToolKit_OT_ImportAnyModel"} =>
        /\ \A j \in 1..Len(scene.ops) :
                SuccessReport(j) =>
                    /\ \A i \in 1..(j - 1) : ~FailedImport(i)
                    /\ \A f \in 1..Len(Requested) :
                            \E i \in 1..(j - 1) :
                                /\ scene.ops[i][1] = "import"
                                /\ \E m \in 1..Len(scene.ops[i][3]) :
                                        scene.ops[i][3][m] = Requested[f]
        /\ (pc = "done" /\ result = "FINISHED") =>
                \E j \in 1..Len(scene.ops) : SuccessReport(j)

====
